---- MODULE Spec2Model ----
(***************************************************************************)
(* Model of the procurement-form analyser (satinalma_analiz.py) and of the *)
(* Flask job harness around it (app.py).                                   *)
(*                                                                         *)
(* Two groups of state:                                                    *)
(*   - the web harness: the shared dictionary analiz_sonuclari, one        *)
(*     background worker per uploaded file, the upload handler and the     *)
(*     status poller (specifications Spec and FairSpec);                   *)
(*   - the approval resolver: the inputs and results of                    *)
(*     onay_kurgusu_hesapla / onay_mercii_belirle (specification SpecOnay).*)
(*                                                                         *)
(* Python strings are TLA+ strings; Python floats are exact rationals      *)
(* [num, den] (the tier comparisons were cross-checked against IEEE        *)
(* doubles for every half-unit value up to 200000 and every duration       *)
(* 1..11: rounding never changes the tier that is selected).  Turkish      *)
(* letters of the source's string literals are written in ASCII.           *)
(***************************************************************************)
EXTENDS Integers, Sequences, FiniteSets, TLC

VARIABLES
    analiz_sonuclari,   \* app.py:34   dict file_id -> entry (a dict)
    dosya,              \* uploads/<id>_<name> per file_id: [var, ad]
    upload,             \* position of upload_file for each file_id
    pc,                 \* position of the worker thread of each file_id
    sonuc,              \* the worker's local `sonuc` (result of pdf_analiz_et)
    hata,               \* the worker's caught exception message `str(e)`
    cikarim,            \* what the text extraction did for the job (history)
    yanit,              \* last response of get_analysis_status per file_id
    gecmis,             \* history: the values analiz_sonuclari[file_id] has
                        \* held, one per write, in order
    toplam_deger,       \* onay_kurgusu_hesapla argument (rational)
    alim_tipi,          \* onay_kurgusu_hesapla argument
    sozlesme_suresi,    \* onay_kurgusu_hesapla argument
    para_birimi,        \* onay_kurgusu_hesapla argument
    gerekce,            \* onay_kurgusu_hesapla argument yonetim_onay_gerekcesi
    matbu_sozlesme,     \* onay_kurgusu_hesapla argument
    onay_kurgusu,       \* result of onay_kurgusu_hesapla, or YokKayit
    mercii,             \* result of onay_mercii_belirle(toplam_deger), or Yok
    belge_metni,        \* the text `metin` handed to the text analyses
    alim_degeri,        \* result of toplam_alim_degeri_bul(metin), or YokKayit
    kontrol,            \* result of onay_kurgusu_kontrol(metin), or YokKayit
    satirlar,           \* risk_analizi_yap: metin.split('\n')
    riskler,            \* result of risk_analizi_yap, or YokKayit
    ozet_metni,         \* extractive_ozet_olustur: metin, as its sentences
    ozet,               \* result of extractive_ozet_olustur, or YokKayit
    asistan,            \* the analyzer object: its phrase lists and tier table
    belge,              \* the text extracted from the file under analysis
    analizler,          \* the calls of pdf_analiz_et made on the analyzer, in
                        \* order: the text and the AnalizSonucu returned
    sozluk              \* result of analiz_et on the text, or YokKayit

jobVars == <<analiz_sonuclari, dosya, upload, pc, sonuc, hata, cikarim,
             yanit, gecmis>>
onayVars == <<toplam_deger, alim_tipi, sozlesme_suresi, para_birimi, gerekce,
              matbu_sozlesme, onay_kurgusu, mercii>>
degerVars == <<belge_metni, alim_degeri, kontrol>>
riskVars == <<satirlar, riskler>>
ozetVars == <<ozet_metni, ozet>>
analizVars == <<asistan, belge, analizler, sozluk>>
metinVars == <<degerVars, riskVars, ozetVars, analizVars>>
vars == <<analiz_sonuclari, dosya, upload, pc, sonuc, hata, cikarim,
          yanit, gecmis, toplam_deger, alim_tipi, sozlesme_suresi, para_birimi,
          gerekce, matbu_sozlesme, onay_kurgusu, mercii, belge_metni,
          alim_degeri, kontrol, satirlar, riskler, ozet_metni, ozet,
          asistan, belge, analizler, sozluk>>

Yok == "<none>"
YokKayit == [yok |-> TRUE]      \* an unset record-valued variable

\* the phrase lists of __init__ (lines 104-199), some phrases of each
\* list; 'OFAC listesi' is written with capital letters (line 128)
ticari_riskler == <<"hafif gecikme", "enflasyon", "ambargo", "OFAC listesi">>
etik_riskler == <<"hediye", "rusvet riski", "yolsuzluk", "rusvet">>
yasal_riskler == <<"ihlal", "hukuksuz">>

\* self.onay_limitleri; sinirsiz marks max = float('inf')
onay_limitleri ==
    << [min |-> 0,      max |-> 1000,   sinirsiz |-> FALSE, mercii |-> "Satinalmaci"],
       [min |-> 1001,   max |-> 5000,   sinirsiz |-> FALSE, mercii |-> "Sef / Kategori Yoneticisi"],
       [min |-> 5001,   max |-> 75000,  sinirsiz |-> FALSE, mercii |-> "Mudur / Bolge Muduru"],
       [min |-> 75001,  max |-> 150000, sinirsiz |-> FALSE, mercii |-> "Direktor"],
       [min |-> 150001, max |-> 400000, sinirsiz |-> FALSE, mercii |-> "Kidemli Direktor"],
       [min |-> 400001, max |-> 600000, sinirsiz |-> FALSE, mercii |-> "Genel Mudur Yardimcisi"],
       [min |-> 600001, max |-> 0,      sinirsiz |-> TRUE,  mercii |-> "Genel Mudur"] >>

\* SatinalmaAnalizAsistani.__init__: the fields of a new analyzer
SatinalmaAnalizAsistani ==
    [ticari_riskler |-> ticari_riskler,
     etik_riskler |-> etik_riskler,
     yasal_riskler |-> yasal_riskler,
     onay_limitleri |-> onay_limitleri]

(***************************************************************************)
(* Bounds                                                                  *)
(***************************************************************************)
MaxSayfa == 1           \* pages per uploaded PDF
MaxSure == 13           \* largest contract duration (months) tried

FileIds == {"id1", "id2"}                 \* the uuid4 values handed out
SayfaMetinleri == {"", "Karar metni."}    \* what a page's extract_text gives

(***************************************************************************)
(* String helpers (Python str semantics)                                   *)
(***************************************************************************)
\* `alt in s`
Contains(s, alt) ==
    \E i \in 0..(Len(s) - Len(alt)) : SubSeq(s, i + 1, i + Len(alt)) = alt

\* position of the last '.' of s, 0 when there is none
LastDot(s) ==
    LET idx == {i \in 1..Len(s) : SubSeq(s, i, i) = "."}
    IN  IF idx = {} THEN 0 ELSE CHOOSE i \in idx : \A k \in idx : k <= i

\* str.lower on one character
LowerChar(c) ==
    IF c \notin {"A", "B", "C", "D", "E", "F", "G", "H", "I", "J", "K", "L", "M",
                 "N", "O", "P", "Q", "R", "S", "T", "U", "V", "W", "X", "Y", "Z"}
    THEN c
    ELSE
    CASE c = "A" -> "a" [] c = "B" -> "b" [] c = "C" -> "c" [] c = "D" -> "d"
      [] c = "E" -> "e" [] c = "F" -> "f" [] c = "G" -> "g" [] c = "H" -> "h"
      [] c = "I" -> "i" [] c = "J" -> "j" [] c = "K" -> "k" [] c = "L" -> "l"
      [] c = "M" -> "m" [] c = "N" -> "n" [] c = "O" -> "o" [] c = "P" -> "p"
      [] c = "Q" -> "q" [] c = "R" -> "r" [] c = "S" -> "s" [] c = "T" -> "t"
      [] c = "U" -> "u" [] c = "V" -> "v" [] c = "W" -> "w" [] c = "X" -> "x"
      [] c = "Y" -> "y" [] c = "Z" -> "z"

RECURSIVE Lower(_)
\* str.lower, the string taken half by half
Lower(s) ==
    IF Len(s) = 0 THEN ""
    ELSE IF Len(s) = 1 THEN LowerChar(s)
    ELSE Lower(SubSeq(s, 1, Len(s) \div 2))
           \o Lower(SubSeq(s, Len(s) \div 2 + 1, Len(s)))

ALLOWED_EXTENSIONS == {"pdf"}

\* app.py allowed_file
allowed_file(filename) ==
    /\ Contains(filename, ".")
    /\ Lower(SubSeq(filename, LastDot(filename) + 1, Len(filename)))
           \in ALLOWED_EXTENSIONS

(***************************************************************************)
(* Text extraction and the analysis entry point                            *)
(***************************************************************************)
RECURSIVE PlumberMetin(_)
\* pdfplumber branch: pages whose text is falsy are skipped
PlumberMetin(sayfalar) ==
    IF sayfalar = <<>> THEN ""
    ELSE (IF Head(sayfalar) # "" THEN Head(sayfalar) \o "\n" ELSE "")
             \o PlumberMetin(Tail(sayfalar))

RECURSIVE PyPdfMetin(_)
\* PyPDF2 branch: every page's text is appended, empty or not
PyPdfMetin(sayfalar) ==
    IF sayfalar = <<>> THEN ""
    ELSE Head(sayfalar) \o "\n" \o PyPdfMetin(Tail(sayfalar))

\* pdf_metni_cikart: plumber / pypdf say whether each library raises;
\* okunan is the number of pages pdfplumber had appended when it raised
\* (metin keeps them, and the PyPDF2 branch appends to it).
pdf_metni_cikart(sayfalar, plumber, okunan, pypdf) ==
    IF plumber = "ok"
    THEN [raised |-> FALSE, metin |-> PlumberMetin(sayfalar)]
    ELSE IF pypdf = "ok"
         THEN [raised |-> FALSE,
               metin |-> PlumberMetin(SubSeq(sayfalar, 1, okunan))
                            \o PyPdfMetin(sayfalar)]
         ELSE [raised |-> TRUE, mesaj |-> "PDF okuma hatasi"]

\* The AnalizSonucu built from a text: each field is the value the pipeline
\* computes from `metin`, kept symbolic here as <<field, metin>>.
Alan(ad, metin) == <<ad, metin>>

SonucAlanlari ==
    {"satinalma_karari", "risk_tespitleri", "onay_mercii",
     "toplam_alim_degeri", "para_birimi", "alim_tipi", "sozlesme_suresi",
     "onay_kurgusu", "ozet"}

AnalizSonucu(metin) == [a \in SonucAlanlari |-> Alan(a, metin)]

\* pdf_analiz_et: raises when the file is missing or the extraction raises;
\* any extracted text, the empty one included, is analysed.
pdf_analiz_et(var, sayfalar, plumber, okunan, pypdf) ==
    IF ~var
    THEN [raised |-> TRUE, mesaj |-> "PDF dosyasi bulunamadi"]
    ELSE LET c == pdf_metni_cikart(sayfalar, plumber, okunan, pypdf)
         IN  IF c.raised THEN c
             ELSE [raised |-> FALSE, sonuc |-> AnalizSonucu(c.metin),
                   metin |-> c.metin]

(***************************************************************************)
(* Job entries                                                             *)
(***************************************************************************)
Zaman == "datetime"

AnalyzingEntry(filename) ==
    [status |-> "analyzing", filename |-> filename, start_time |-> Zaman,
     progress |-> 0]

CompletedEntry(filename, start, s) ==
    [status |-> "completed", filename |-> filename, start_time |-> start,
     end_time |-> Zaman, progress |-> 100,
     satinalma_karari |-> s["satinalma_karari"],
     risk_sayisi |-> <<"len", s["risk_tespitleri"]>>,
     risk_tespitleri |-> s["risk_tespitleri"],
     onay_mercii |-> s["onay_mercii"],
     toplam_alim_degeri |-> s["toplam_alim_degeri"],
     para_birimi |-> s["para_birimi"],
     formatted_amount |-> <<"format_currency", s["toplam_alim_degeri"],
                            s["para_birimi"]>>,
     alim_tipi |-> s["alim_tipi"],
     sozlesme_suresi |-> s["sozlesme_suresi"],
     onay_kurgusu |-> s["onay_kurgusu"],
     ozet |-> s["ozet"],
     rapor |-> <<"rapor_olustur", s["satinalma_karari"]>>]

ErrorEntry(filename, mesaj) ==
    [status |-> "error", filename |-> filename, error |-> mesaj,
     end_time |-> Zaman]

\* d[k] = v on a Python dict
DictSet(d, k, v) == [x \in DOMAIN d \cup {k} |-> IF x = k THEN v ELSE d[x]]

\* entry['progress'] = p
SetProgress(e, p) == [e EXCEPT !.progress = p]

Filenames == {"", "form.PDF", "../form.PDF", "form.txt", "form"}

\* werkzeug's secure_filename, as far as the names tried need it: the
\* directory part is dropped
secure_filename(filename) ==
    IF Len(filename) >= 3 /\ SubSeq(filename, 1, 3) = "../"
    THEN SubSeq(filename, 4, Len(filename))
    ELSE filename


RECURSIVE Diziler(_, _)
\* sequences over S of length at most n
Diziler(S, n) ==
    IF n = 0 THEN {<<>>}
    ELSE Diziler(S, n - 1)
           \cup {Append(d, x) : d \in {q \in Diziler(S, n - 1) : Len(q) = n - 1},
                                x \in S}

PdfIcerikleri == Diziler(SayfaMetinleri, MaxSayfa)

(***************************************************************************)
(* upload_file (app.py:78-116)                                             *)
(***************************************************************************)
IstekGecerli(has_file, filename) ==
    has_file /\ filename # "" /\ allowed_file(filename)

\* one of the three early returns with code 400: no state is touched
UploadReject ==
    /\ {istek \in BOOLEAN \X Filenames : ~IstekGecerli(istek[1], istek[2])} # {}
    /\ UNCHANGED <<analiz_sonuclari, dosya, upload, pc, sonuc, hata, cikarim,
                   yanit, gecmis>>
    /\ UNCHANGED <<onayVars, metinVars>>

\* file.save (or thread creation) raises: the handler answers 500 and no
\* worker runs
UploadFail ==
    /\ {filename \in Filenames : IstekGecerli(TRUE, filename)} # {}
    /\ UNCHANGED <<analiz_sonuclari, dosya, upload, pc, sonuc, hata, cikarim,
                   yanit, gecmis>>
    /\ UNCHANGED <<onayVars, metinVars>>

\* lines 93-106: the file is saved under a fresh uuid and the worker thread
\* is started; the response has not been sent yet
UploadStart(id) ==
    /\ upload[id] = "idle"
    /\ \E filename \in Filenames :
          /\ IstekGecerli(TRUE, filename)
          /\ dosya' = [dosya EXCEPT ![id] =
                          [var |-> TRUE, ad |-> secure_filename(filename)]]
    /\ upload' = [upload EXCEPT ![id] = "started"]
    /\ pc' = [pc EXCEPT ![id] = "w_init"]
    /\ UNCHANGED <<analiz_sonuclari, sonuc, hata, cikarim, yanit, gecmis>>
    /\ UNCHANGED <<onayVars, metinVars>>

\* lines 108-113: the caller receives file_id
UploadReturn(id) ==
    /\ upload[id] = "started"
    /\ upload' = [upload EXCEPT ![id] = "returned"]
    /\ UNCHANGED <<analiz_sonuclari, dosya, pc, sonuc, hata, cikarim,
                   yanit, gecmis>>
    /\ UNCHANGED <<onayVars, metinVars>>

(***************************************************************************)
(* analyze_pdf_background (app.py:118-179), one step per dictionary write  *)
(***************************************************************************)
\* a write of entry e under key id, recorded in the key's history
Yaz(id, e) ==
    /\ analiz_sonuclari' = DictSet(analiz_sonuclari, id, e)
    /\ gecmis' = [gecmis EXCEPT ![id] = Append(@, e)]

\* lines 122-127
WorkerInit(id) ==
    /\ pc[id] = "w_init"
    /\ Yaz(id, AnalyzingEntry(dosya[id].ad))
    /\ pc' = [pc EXCEPT ![id] = "w_sleep"]
    /\ UNCHANGED <<dosya, upload, sonuc, hata, cikarim, yanit>>
    /\ UNCHANGED <<onayVars, metinVars>>

\* lines 130-131
WorkerProgress25(id) ==
    /\ pc[id] = "w_sleep"
    /\ Yaz(id, SetProgress(analiz_sonuclari[id], 25))
    /\ pc' = [pc EXCEPT ![id] = "w_analiz"]
    /\ UNCHANGED <<dosya, upload, sonuc, hata, cikarim, yanit>>
    /\ UNCHANGED <<onayVars, metinVars>>

\* what the extraction did, for the record: raised / empty / text
CikarimTuru(r) ==
    IF r.raised THEN "raised" ELSE IF r.metin = "" THEN "empty" ELSE "text"

\* line 133: sonuc = analiz_asistani.pdf_analiz_et(file_path); an exception
\* transfers control to the handler of line 173.  What the saved bytes hold
\* is known only through the PDF libraries: the pages they yield (sayfalar)
\* and whether they raise are the step's inputs, as is the file having been
\* removed from the upload folder meanwhile.
WorkerAnaliz(id) ==
    /\ pc[id] = "w_analiz"
    /\ \E var \in {dosya[id].var, FALSE}, sayfalar \in PdfIcerikleri,
          plumber \in {"ok", "raise"}, pypdf \in {"ok", "raise"} :
       \E okunan \in 0..Len(sayfalar) :
          LET r == pdf_analiz_et(var, sayfalar, plumber, okunan, pypdf)
          IN  /\ cikarim' = [cikarim EXCEPT ![id] = CikarimTuru(r)]
              /\ IF r.raised
                 THEN /\ hata' = [hata EXCEPT ![id] = r.mesaj]
                      /\ pc' = [pc EXCEPT ![id] = "w_except"]
                      /\ UNCHANGED sonuc
                 ELSE /\ sonuc' = [sonuc EXCEPT ![id] = r.sonuc]
                      /\ pc' = [pc EXCEPT ![id] = "w_p75"]
                      /\ UNCHANGED hata
    /\ UNCHANGED <<analiz_sonuclari, dosya, upload, yanit, gecmis>>
    /\ UNCHANGED <<onayVars, metinVars>>

\* line 134
WorkerProgress75(id) ==
    /\ pc[id] = "w_p75"
    /\ Yaz(id, SetProgress(analiz_sonuclari[id], 75))
    /\ pc' = [pc EXCEPT ![id] = "w_store"]
    /\ UNCHANGED <<dosya, upload, sonuc, hata, cikarim, yanit>>
    /\ UNCHANGED <<onayVars, metinVars>>

\* a variant that marks the entry completed in place before its result
\* fields are there
WorkerStore_Parcali(id) ==
    /\ pc[id] = "w_store"
    /\ Yaz(id, [analiz_sonuclari[id] EXCEPT !.status = "completed"])
    /\ pc' = [pc EXCEPT ![id] = "w_temizle"]
    /\ UNCHANGED <<dosya, upload, sonuc, hata, cikarim, yanit>>
    /\ UNCHANGED <<onayVars, metinVars>>

\* lines 137-165: formatted_result is built locally and stored in one write
WorkerStore(id) ==
    /\ pc[id] = "w_store"
    /\ Yaz(id, CompletedEntry(dosya[id].ad, analiz_sonuclari[id].start_time,
                               sonuc[id]))
    /\ pc' = [pc EXCEPT ![id] = "w_temizle"]
    /\ UNCHANGED <<dosya, upload, sonuc, hata, cikarim, yanit>>
    /\ UNCHANGED <<onayVars, metinVars>>

\* a variant whose failing os.remove reaches the handler of line 173
WorkerTemizle_Yutmayan(id) ==
    /\ pc[id] = "w_temizle"
    /\ hata' = [hata EXCEPT ![id] = "os.remove"]
    /\ pc' = [pc EXCEPT ![id] = "w_except"]
    /\ UNCHANGED <<analiz_sonuclari, dosya, upload, sonuc, cikarim,
                   yanit, gecmis>>
    /\ UNCHANGED <<onayVars, metinVars>>

\* lines 168-171: os.remove, failures swallowed
WorkerTemizle(id) ==
    /\ pc[id] = "w_temizle"
    /\ dosya' = [dosya EXCEPT ![id] = [dosya[id] EXCEPT !.var = FALSE]]
    /\ pc' = [pc EXCEPT ![id] = "done"]
    /\ UNCHANGED <<analiz_sonuclari, upload, sonuc, hata, cikarim,
                   yanit, gecmis>>
    /\ UNCHANGED <<onayVars, metinVars>>

\* a handler that lets the thread die without recording the failure
WorkerExcept_Kayitsiz(id) ==
    /\ pc[id] = "w_except"
    /\ pc' = [pc EXCEPT ![id] = "done"]
    /\ UNCHANGED <<analiz_sonuclari, gecmis, dosya, upload, sonuc, hata,
                   cikarim, yanit>>
    /\ UNCHANGED <<onayVars, metinVars>>

\* lines 173-179: except Exception as e
WorkerExcept(id) ==
    /\ pc[id] = "w_except"
    /\ Yaz(id, ErrorEntry(dosya[id].ad, hata[id]))
    /\ pc' = [pc EXCEPT ![id] = "done"]
    /\ UNCHANGED <<dosya, upload, sonuc, hata, cikarim, yanit>>
    /\ UNCHANGED <<onayVars, metinVars>>

analyze_pdf_background(id) ==
    \/ WorkerInit(id)
    \/ WorkerProgress25(id)
    \/ WorkerAnaliz(id)
    \/ WorkerProgress75(id)
    \/ WorkerStore(id)
    \/ WorkerTemizle(id)
    \/ WorkerExcept(id)

(***************************************************************************)
(* get_analysis_status (app.py:181-195), called by a client that holds the *)
(* file_id upload_file returned                                            *)
(***************************************************************************)
\* lines 187-193: the copy of the entry with its datetimes as '%H:%M:%S'
YanitGovdesi(e) ==
    [k \in DOMAIN e |->
        IF k \in {"start_time", "end_time"} THEN "HH:MM:SS" ELSE e[k]]

get_analysis_status(id) ==
    /\ upload[id] = "returned"
    /\ LET y == IF id \notin DOMAIN analiz_sonuclari
                THEN [code |-> 404, error |-> "Analiz bulunamadi"]
                ELSE [code |-> 200, body |-> YanitGovdesi(analiz_sonuclari[id])]
       IN  yanit' = [yanit EXCEPT ![id] = y]
    /\ UNCHANGED <<analiz_sonuclari, dosya, upload, pc, sonuc, hata,
                   cikarim, gecmis>>
    /\ UNCHANGED <<onayVars, metinVars>>

\* show_result (app.py:197-210) and download_report (app.py:212-235), called
\* by a client that holds the file_id: both read the entry, redirect or
\* answer 400 unless its status is 'completed', and otherwise render it or
\* send its report; neither writes to analiz_sonuclari
show_result(id) ==
    /\ upload[id] = "returned"
    /\ UNCHANGED <<analiz_sonuclari, dosya, upload, pc, sonuc, hata,
                   cikarim, yanit, gecmis>>
    /\ UNCHANGED <<onayVars, metinVars>>

download_report(id) ==
    /\ upload[id] = "returned"
    /\ UNCHANGED <<analiz_sonuclari, dosya, upload, pc, sonuc, hata,
                   cikarim, yanit, gecmis>>
    /\ UNCHANGED <<onayVars, metinVars>>

(***************************************************************************)
(* The web harness                                                         *)
(***************************************************************************)
OnayBosta ==
    /\ toplam_deger = [num |-> 0, den |-> 1]
    /\ alim_tipi = "Belirsiz"
    /\ sozlesme_suresi = 0
    /\ para_birimi = "USD"
    /\ gerekce = ""
    /\ matbu_sozlesme = TRUE
    /\ onay_kurgusu = YokKayit
    /\ mercii = Yok

AnalizBosta ==
    /\ asistan = SatinalmaAnalizAsistani
    /\ belge = <<>>
    /\ analizler = <<>>
    /\ sozluk = YokKayit

MetinBosta ==
    /\ belge_metni = <<>>
    /\ alim_degeri = YokKayit
    /\ kontrol = YokKayit
    /\ satirlar = <<"">>
    /\ riskler = YokKayit
    /\ ozet_metni = <<>>
    /\ ozet = YokKayit
    /\ AnalizBosta

Init ==
    /\ analiz_sonuclari = <<>>
    /\ dosya = [id \in FileIds |-> [var |-> FALSE, ad |-> ""]]
    /\ upload = [id \in FileIds |-> "idle"]
    /\ pc = [id \in FileIds |-> "none"]
    /\ sonuc = [id \in FileIds |-> AnalizSonucu(Yok)]
    /\ hata = [id \in FileIds |-> ""]
    /\ cikarim = [id \in FileIds |-> "none"]
    /\ yanit = [id \in FileIds |-> [code |-> 0]]
    /\ gecmis = [id \in FileIds |-> <<>>]
    /\ OnayBosta
    /\ MetinBosta

Next ==
    \/ UploadReject
    \/ UploadFail
    \/ \E id \in FileIds :
          \/ UploadStart(id)
          \/ UploadReturn(id)
          \/ WorkerInit(id)
          \/ WorkerProgress25(id)
          \/ WorkerAnaliz(id)
          \/ WorkerProgress75(id)
          \/ WorkerStore(id)
          \/ WorkerTemizle(id)
          \/ WorkerExcept(id)
          \/ get_analysis_status(id)

Spec == Init /\ [][Next]_vars

\* every started worker thread is scheduled until it returns
FairSpec == Spec /\ \A id \in FileIds : WF_vars(analyze_pdf_background(id))

\* the harness with the two handlers that show a finished job
NextIstek ==
    \/ Next
    \/ \E id \in FileIds :
          \/ show_result(id)
          \/ download_report(id)

SpecIstek == Init /\ [][NextIstek]_vars

(***************************************************************************)
(* Properties of the web harness                                           *)
(***************************************************************************)
IsPrefix(p, q) == Len(p) <= Len(q) /\ SubSeq(q, 1, Len(p)) = p

RECURSIVE Tekrarsiz(_)
\* a sequence without its consecutive repetitions
Tekrarsiz(q) ==
    IF Len(q) <= 1 THEN q
    ELSE IF q[1] = q[2] THEN Tekrarsiz(Tail(q))
         ELSE <<q[1]>> \o Tekrarsiz(Tail(q))

\* the statuses the entry of id has shown, in order
Durumlar(id) == Tekrarsiz([i \in 1..Len(gecmis[id]) |-> gecmis[id][i].status])

Bitti(id) ==
    /\ id \in DOMAIN analiz_sonuclari
    /\ analiz_sonuclari[id].status \in {"completed", "error"}

\* C1: for every job the statuses observable in analiz_sonuclari follow
\* Pending, Analyzing, then exactly one of Completed or Error: Pending comes
\* first, nothing is skipped, nothing goes backwards.
C1_StatusOrder ==
    \A id \in FileIds :
        \/ IsPrefix(Durumlar(id), <<"pending", "analyzing", "completed">>)
        \/ IsPrefix(Durumlar(id), <<"pending", "analyzing", "error">>)

\* C2: in every state of a job, the Error state included, the entry's
\* progress is an integer in 0..100, and it never decreases from one write
\* to the next.
C2_ProgressRangeMonotone ==
    \A id \in FileIds : \A i \in 1..Len(gecmis[id]) :
        /\ "progress" \in DOMAIN gecmis[id][i]
        /\ gecmis[id][i].progress \in 0..100
        /\ i > 1 /\ "progress" \in DOMAIN gecmis[id][i - 1]
              => gecmis[id][i - 1].progress <= gecmis[id][i].progress

\* C3: the entry is created on upload: a status query made after upload_file
\* has returned the identifier always finds an entry (never answers 404).
C3_StatusFindsEntry ==
    \A id \in FileIds : yanit[id].code # 404

\* C4: under fair scheduling of the worker thread, every submitted job
\* eventually has status Completed or Error.
C4_EventuallyTerminal ==
    \A id \in FileIds : (pc[id] # "none") ~> Bitti(id)

\* a run in which one job completed and another failed
C4_Witness ==
    \E a, b \in FileIds :
        /\ pc[a] = "done" /\ pc[b] = "done"
        /\ Bitti(a) /\ analiz_sonuclari[a].status = "completed"
        /\ Bitti(b) /\ analiz_sonuclari[b].status = "error"

\* C5: when the text extraction of a job raised or returned no text, the job
\* ends in status Error with an error message in its entry.
C5_ExtractionFailureIsError ==
    \A id \in FileIds :
        pc[id] = "done" /\ cikarim[id] \in {"raised", "empty"}
            => /\ id \in DOMAIN analiz_sonuclari
               /\ analiz_sonuclari[id].status = "error"
               /\ "error" \in DOMAIN analiz_sonuclari[id]

\* the keys of formatted_result that carry the analysis (lines 143-164)
SonucAnahtarlari ==
    {"satinalma_karari", "risk_sayisi", "risk_tespitleri", "onay_mercii",
     "toplam_alim_degeri", "para_birimi", "formatted_amount", "alim_tipi",
     "sozlesme_suresi", "onay_kurgusu", "ozet", "rapor"}

\* the body of a status response holds a whole entry
TamGovde(b) ==
    /\ b.status = "completed"
          => /\ "progress" \in DOMAIN b
             /\ b.progress = 100
             /\ SonucAnahtarlari \subseteq DOMAIN b
    /\ b.status = "error" => "error" \in DOMAIN b

\* C26: a status poller never reads a partially written entry: under every
\* interleaving of get_analysis_status with the workers, a response with
\* status 'completed' has progress 100 and all result fields, the report
\* included, and a response with status 'error' has the error message.
C26_PollerReadsWholeEntry ==
    \A id \in FileIds : yanit[id].code = 200 => TamGovde(yanit[id].body)

\* one poller has read a completed entry and another an error entry
C26_Witness ==
    \E a, b \in FileIds :
        /\ yanit[a].code = 200 /\ yanit[a].body.status = "completed"
        /\ yanit[b].code = 200 /\ yanit[b].body.status = "error"

\* C27: terminal entries are absorbing and never removed: once the entry
\* of a job has status 'completed' or 'error', no step of any worker or
\* request handler changes or deletes it.
C27_TerminalEntryAbsorbing ==
    [][\A id \in FileIds :
          Bitti(id) => /\ id \in DOMAIN analiz_sonuclari'
                       /\ analiz_sonuclari'[id] = analiz_sonuclari[id]]_vars

\* a job completed, was polled and its worker has cleaned up, while the
\* other job's worker went on writing after it and ended in error
C27_Witness ==
    \E a, b \in FileIds :
        /\ Bitti(a) /\ analiz_sonuclari[a].status = "completed"
        /\ pc[a] = "done"
        /\ yanit[a].code = 200 /\ yanit[a].body.status = "completed"
        /\ pc[b] = "done" /\ analiz_sonuclari[b].status = "error"
        /\ gecmis[b] # <<>>

(***************************************************************************)
(* Approval resolver (satinalma_analiz.py:201-209, 706-774)                *)
(***************************************************************************)
\* floats as exact rationals num/den, den > 0
Rat(n) == [num |-> n, den |-> 1]
RatLeq(a, b) == a.num * b.den <= b.num * a.den
RatLt(a, b) == a.num * b.den < b.num * a.den
RatEq(a, b) == a.num * b.den = b.num * a.den
RatDivInt(a, k) == [num |-> a.num, den |-> a.den * k]      \* a / k, k > 0
RatMulInt(a, k) == [num |-> a.num * k, den |-> a.den]      \* a * k


\* min_tutar <= tutar <= max_tutar
LimitUyar(limit, tutar) ==
    /\ RatLeq(Rat(limit.min), tutar)
    /\ limit.sinirsiz \/ RatLeq(tutar, Rat(limit.max))

\* onay_mercii_belirle: the first row that matches, else "Belirsiz"
onay_mercii_belirle(tutar) ==
    LET limitler == asistan.onay_limitleri
        uyan == {i \in 1..Len(limitler) : LimitUyar(limitler[i], tutar)}
    IN  IF uyan = {} THEN "Belirsiz"
        ELSE limitler[CHOOSE i \in uyan : \A k \in uyan : i <= k].mercii

DanismanlikIsareti == "Danismanlik Ihalesi"
FinansalLimitIsareti == "Finansal Limit"

DanismanlikMi_Esitlik(yonetim_onay_gerekcesi) ==
    yonetim_onay_gerekcesi = DanismanlikIsareti

\* line 713: "Danışmanlık İhalesi" in yonetim_onay_gerekçesi
DanismanlikMi(yonetim_onay_gerekcesi) ==
    Contains(yonetim_onay_gerekcesi, DanismanlikIsareti)

MatbuKontrolu_Ve(suresi, deger, matbu) ==
    (suresi > 6 /\ RatLt(Rat(150000), deger)) /\ ~matbu

\* line 726: (sozlesme_suresi > 6 or kullanilan_deger > 150000) and not matbu_sozlesme
MatbuKontrolu(suresi, deger, matbu) ==
    (suresi > 6 \/ RatLt(Rat(150000), deger)) /\ ~matbu

Yilliklastir_OnIkiDahil(toplam, tip, suresi) ==
    IF tip = "Spot"
    THEN [deger |-> toplam, yillik |-> FALSE,
          neden |-> "Spot alim: toplam deger dogrudan kullanildi"]
    ELSE IF tip = "Surekli"
    THEN IF suresi <= 12 /\ suresi > 0
         THEN [deger |-> RatMulInt(RatDivInt(toplam, suresi), 12),
               yillik |-> TRUE,
               neden |-> "Surekli alim, sure < 12 ay: yilliklastirildi"]
         ELSE IF suresi >= 12
         THEN [deger |-> toplam, yillik |-> FALSE,
               neden |-> "Surekli alim, sure >= 12 ay: toplam deger kullanildi"]
         ELSE [deger |-> toplam, yillik |-> FALSE,
               neden |-> "Surekli alim, sure belirtilmemis: toplam deger kullanildi"]
    ELSE [deger |-> toplam, yillik |-> FALSE,
          neden |-> "Alim tipi belirsiz: toplam deger kullanildi"]

\* lines 738-751: the value used for the lookup, the annualized flag and the
\* reasoning (the numbers interpolated into the text are left out)
Yilliklastir(toplam, tip, suresi) ==
    IF tip = "Spot"
    THEN [deger |-> toplam, yillik |-> FALSE,
          neden |-> "Spot alim: toplam deger dogrudan kullanildi"]
    ELSE IF tip = "Surekli"
    THEN IF suresi < 12 /\ suresi > 0
         THEN [deger |-> RatMulInt(RatDivInt(toplam, suresi), 12),
               yillik |-> TRUE,
               neden |-> "Surekli alim, sure < 12 ay: yilliklastirildi"]
         ELSE IF suresi >= 12
         THEN [deger |-> toplam, yillik |-> FALSE,
               neden |-> "Surekli alim, sure >= 12 ay: toplam deger kullanildi"]
         ELSE [deger |-> toplam, yillik |-> FALSE,
               neden |-> "Surekli alim, sure belirtilmemis: toplam deger kullanildi"]
    ELSE [deger |-> toplam, yillik |-> FALSE,
          neden |-> "Alim tipi belirsiz: toplam deger kullanildi"]

MinimumEki_Icerir(yonetim_onay_gerekcesi) ==
    IF Contains(yonetim_onay_gerekcesi, FinansalLimitIsareti)
    THEN " (minimum)" ELSE ""

\* lines 757-758: what is appended to the tier's name
MinimumEki(yonetim_onay_gerekcesi) ==
    IF yonetim_onay_gerekcesi = FinansalLimitIsareti THEN " (minimum)" ELSE ""

\* onay_kurgusu_hesapla (lines 706-766)
onay_kurgusu_hesapla(toplam, tip, suresi, birim, yonetim_onay_gerekcesi, matbu) ==
    IF DanismanlikMi(yonetim_onay_gerekcesi)
    THEN [kullanilan_deger |-> toplam,
          hesaplama_nedeni |-> "Danismanlik Ihalesi: tutar ne olursa olsun Genel Mudur",
          onay_mercii |-> "Genel Mudur",
          yillik_deger |-> FALSE,
          para_birimi |-> birim]
    ELSE IF MatbuKontrolu(suresi, toplam, matbu)
    THEN [kullanilan_deger |-> toplam,
          hesaplama_nedeni |-> "Sure > 6 ay veya tutar > 150.000, matbu sozlesme yok: Minimum Direktor",
          onay_mercii |-> "Minimum Direktor",
          yillik_deger |-> FALSE,
          para_birimi |-> birim]
    ELSE LET y == Yilliklastir(toplam, tip, suresi)
         IN  [kullanilan_deger |-> y.deger,
              hesaplama_nedeni |-> y.neden,
              onay_mercii |-> onay_mercii_belirle(y.deger)
                                 \o MinimumEki(yonetim_onay_gerekcesi),
              yillik_deger |-> y.yillik,
              para_birimi |-> birim]

(***************************************************************************)
(* Inputs tried for the resolver                                           *)
(***************************************************************************)
TamTutarlar ==
    {0, 500, 1000, 1001, 5000, 5001, 10000, 50000, 75000, 75001, 100000,
     150000, 150001, 200000, 400000, 400001, 600000, 600001, 700000}

\* n + 1/2: amounts with a fractional part ('1.000,50')
YarimTutarlar == {583, 1000, 5000, 75000, 150000, 400000, 600000}

Tutarlar ==
    {Rat(n) : n \in TamTutarlar}
        \cup {[num |-> 2 * n + 1, den |-> 2] : n \in YarimTutarlar}

AlimTipleri == {"Spot", "Surekli", "Belirsiz"}
ParaBirimleri == {"USD", "EUR"}
Gerekceler ==
    {"", "Finansal Limit", "Finansal Limit ", "finansal limit",
     "Danismanlik Ihalesi", "Acil Danismanlik Ihalesi Karari",
     "danismanlik ihalesi"}

InitOnay ==
    /\ analiz_sonuclari = <<>>
    /\ dosya = [id \in FileIds |-> [var |-> FALSE, ad |-> ""]]
    /\ upload = [id \in FileIds |-> "idle"]
    /\ pc = [id \in FileIds |-> "none"]
    /\ sonuc = [id \in FileIds |-> AnalizSonucu(Yok)]
    /\ hata = [id \in FileIds |-> ""]
    /\ cikarim = [id \in FileIds |-> "none"]
    /\ yanit = [id \in FileIds |-> [code |-> 0]]
    /\ gecmis = [id \in FileIds |-> <<>>]
    /\ toplam_deger \in Tutarlar
    /\ alim_tipi \in AlimTipleri
    /\ sozlesme_suresi \in 0..MaxSure
    /\ para_birimi \in ParaBirimleri
    /\ gerekce \in Gerekceler
    /\ matbu_sozlesme \in BOOLEAN
    /\ onay_kurgusu = YokKayit
    /\ mercii = Yok
    /\ MetinBosta

\* a call of onay_kurgusu_hesapla on the inputs
OnayKurgusuHesapla ==
    /\ onay_kurgusu = YokKayit
    /\ onay_kurgusu' = onay_kurgusu_hesapla(toplam_deger, alim_tipi,
                           sozlesme_suresi, para_birimi, gerekce, matbu_sozlesme)
    /\ UNCHANGED <<toplam_deger, alim_tipi, sozlesme_suresi, para_birimi,
                   gerekce, matbu_sozlesme, mercii>>
    /\ UNCHANGED <<jobVars, metinVars>>

\* a call of onay_mercii_belirle on the value
OnayMerciiBelirle ==
    /\ mercii = Yok
    /\ mercii' = onay_mercii_belirle(toplam_deger)
    /\ UNCHANGED <<toplam_deger, alim_tipi, sozlesme_suresi, para_birimi,
                   gerekce, matbu_sozlesme, onay_kurgusu>>
    /\ UNCHANGED <<jobVars, metinVars>>

NextOnay == OnayKurgusuHesapla \/ OnayMerciiBelirle

SpecOnay == InitOnay /\ [][NextOnay]_vars

(***************************************************************************)
(* Properties of the approval resolver                                     *)
(***************************************************************************)
Hesaplandi == "onay_mercii" \in DOMAIN onay_kurgusu

\* the rows of the tier table that match a value
UyanSatirlar(tutar) ==
    {i \in 1..Len(onay_limitleri) : LimitUyar(onay_limitleri[i], tutar)}

\* rule 1 / rule 2 of the resolution order apply to the inputs
DanismanlikKurali == Contains(gerekce, DanismanlikIsareti)
MatbuKurali ==
    /\ ~DanismanlikKurali
    /\ sozlesme_suresi > 6 \/ RatLt(Rat(150000), toplam_deger)
    /\ ~matbu_sozlesme
KuralYok == ~DanismanlikKurali /\ ~MatbuKurali

\* C6: every value v >= 0, fractional ones included, is matched by exactly
\* one row of onay_limitleri, so onay_mercii_belirle never answers
\* 'Belirsiz' (for the value looked up directly and for the value
\* onay_kurgusu_hesapla looks up).
C6_TierCoverage ==
    /\ mercii # Yok
          => /\ Cardinality(UyanSatirlar(toplam_deger)) = 1
             /\ mercii # "Belirsiz"
    /\ Hesaplandi
          => Cardinality(UyanSatirlar(onay_kurgusu.kullanilan_deger)) = 1

\* C7: whenever the justification contains the consulting-tender marker the
\* authority is the top-level one (the last row's, 'Genel Mudur'), whatever
\* the value, type, duration and standard-contract flag.
C7_ConsultingTenderWins ==
    Hesaplandi /\ DanismanlikKurali
        => /\ onay_kurgusu.onay_mercii = "Genel Mudur"
           /\ onay_kurgusu.onay_mercii
                 = onay_limitleri[Len(onay_limitleri)].mercii

\* the marker inside a longer text, with rule 2's condition true as well and
\* a value of the lowest tier
C7_Witness ==
    /\ Hesaplandi
    /\ DanismanlikKurali /\ gerekce # DanismanlikIsareti
    /\ ~matbu_sozlesme /\ sozlesme_suresi > 6
    /\ toplam_deger = Rat(500)
    /\ onay_kurgusu.onay_mercii = "Genel Mudur"

\* C8: without the consulting-tender rule, (duration > 6 or value > 150000)
\* and flag false gives 'Minimum Direktor' with the value not annualized;
\* with the flag true or neither threshold exceeded the override never fires.
C8_NonStandardContractOverride ==
    Hesaplandi /\ ~DanismanlikKurali
        => IF (sozlesme_suresi > 6 \/ RatLt(Rat(150000), toplam_deger))
                 /\ ~matbu_sozlesme
           THEN /\ onay_kurgusu.onay_mercii = "Minimum Direktor"
                /\ onay_kurgusu.kullanilan_deger = toplam_deger
                /\ ~onay_kurgusu.yillik_deger
           ELSE onay_kurgusu.onay_mercii # "Minimum Direktor"

\* the value alone triggers the override (150000.5, 3 months, Recurring)
C8_Witness ==
    /\ Hesaplandi
    /\ gerekce = FinansalLimitIsareti
    /\ ~matbu_sozlesme /\ sozlesme_suresi = 3 /\ alim_tipi = "Surekli"
    /\ toplam_deger = [num |-> 300001, den |-> 2]
    /\ onay_kurgusu.onay_mercii = "Minimum Direktor"

\* C9: when no override fires, the value looked up is value * (12/duration)
\* exactly when the type is 'Surekli' and 0 < duration < 12, and the
\* unchanged value otherwise; yillik_deger is true exactly in the scaled
\* case.  10000 Recurring 6 months gives 20000 and the [5001,75000] tier;
\* 50000 Spot gives the [5001,75000] tier.
C9_Annualization ==
    Hesaplandi /\ KuralYok
        => /\ IF alim_tipi = "Surekli" /\ 0 < sozlesme_suresi
                    /\ sozlesme_suresi < 12
              THEN /\ RatEq(onay_kurgusu.kullanilan_deger,
                            [num |-> toplam_deger.num * 12,
                             den |-> toplam_deger.den * sozlesme_suresi])
                   /\ onay_kurgusu.yillik_deger
              ELSE /\ onay_kurgusu.kullanilan_deger = toplam_deger
                   /\ ~onay_kurgusu.yillik_deger
           /\ toplam_deger = Rat(10000) /\ alim_tipi = "Surekli"
                 /\ sozlesme_suresi = 6 /\ gerekce = ""
                 => /\ RatEq(onay_kurgusu.kullanilan_deger, Rat(20000))
                    /\ onay_kurgusu.onay_mercii = onay_limitleri[3].mercii
           /\ toplam_deger = Rat(50000) /\ alim_tipi = "Spot" /\ gerekce = ""
                 => onay_kurgusu.onay_mercii = onay_limitleri[3].mercii

\* the spec's example: 10000, Recurring, 6 months
C9_Witness ==
    /\ Hesaplandi /\ KuralYok
    /\ toplam_deger = Rat(10000) /\ alim_tipi = "Surekli"
    /\ sozlesme_suresi = 6
    /\ RatEq(onay_kurgusu.kullanilan_deger, Rat(20000))
    /\ onay_kurgusu.yillik_deger

\* C10: when the authority comes from the tier table, the returned name is
\* the tier's name followed by ' (minimum)' if and only if the justification
\* equals 'Finansal Limit'; otherwise it is the tier's name unchanged.
C10_MinimumQualifier ==
    Hesaplandi /\ KuralYok
        => LET ad == onay_mercii_belirle(onay_kurgusu.kullanilan_deger)
           IN  IF gerekce = FinansalLimitIsareti
               THEN onay_kurgusu.onay_mercii = ad \o " (minimum)"
               ELSE onay_kurgusu.onay_mercii = ad

\* 'Finansal Limit' with a Spot value of 50000
C10_Witness ==
    /\ Hesaplandi /\ KuralYok
    /\ gerekce = FinansalLimitIsareti
    /\ toplam_deger = Rat(50000) /\ alim_tipi = "Spot"
    /\ onay_kurgusu.onay_mercii = "Mudur / Bolge Muduru (minimum)"

(***************************************************************************)
(* Value extraction: toplam_alim_degeri_bul and onay_kurgusu_kontrol       *)
(*                                                                         *)
(* Numeric strings are converted character by character, as the code does. *)
(* A float is an exact decimal [num, den] with den a power of ten and no   *)
(* trailing zero in the fraction, so equal values are equal records.       *)
(***************************************************************************)
Rakamlar == {"0", "1", "2", "3", "4", "5", "6", "7", "8", "9"}

RakamDegeri(c) ==
    CASE c = "0" -> 0 [] c = "1" -> 1 [] c = "2" -> 2 [] c = "3" -> 3
      [] c = "4" -> 4 [] c = "5" -> 5 [] c = "6" -> 6 [] c = "7" -> 7
      [] c = "8" -> 8 [] c = "9" -> 9

Harf(s, i) == SubSeq(s, i, i)

\* str.count(c)
Adet(s, c) == Cardinality({i \in 1..Len(s) : Harf(s, i) = c})

RECURSIVE Replace(_, _, _)
\* str.replace(c, d) for a one-character c
Replace(s, c, d) ==
    IF s = "" THEN ""
    ELSE (IF Harf(s, 1) = c THEN d ELSE Harf(s, 1))
           \o Replace(SubSeq(s, 2, Len(s)), c, d)

\* the lengths of s.split('.')[1:]
NoktaSonrasiUzunluklar(s) ==
    LET N == {i \in 1..Len(s) : Harf(s, i) = "."}
        Son(i) == IF \E j \in N : j > i
                  THEN (CHOOSE j \in N : j > i /\ \A k \in N : k > i => j <= k)
                  ELSE Len(s) + 1
    IN  {Son(i) - i - 1 : i \in N}

RECURSIVE TamSayi(_)
\* int of a string of digits ("" gives 0)
TamSayi(s) ==
    IF s = "" THEN 0
    ELSE 10 * TamSayi(SubSeq(s, 1, Len(s) - 1)) + RakamDegeri(Harf(s, Len(s)))

RECURSIVE OnUssu(_)
OnUssu(k) == IF k = 0 THEN 1 ELSE 10 * OnUssu(k - 1)

RECURSIVE RatNorm(_)
\* the same value with no trailing zero in the fraction
RatNorm(r) ==
    IF r.den > 1 /\ r.num % 10 = 0
    THEN RatNorm([num |-> r.num \div 10, den |-> r.den \div 10])
    ELSE r

ValueError == [ok |-> FALSE]
Deger(r) == [ok |-> TRUE, v |-> r]

\* float(s) on a string: digits with at most one '.', at least one digit;
\* anything else raises ValueError
float(s) ==
    LET rakam == {i \in 1..Len(s) : Harf(s, i) \in Rakamlar}
        nokta == {i \in 1..Len(s) : Harf(s, i) = "."}
    IN  IF rakam = {} \/ Cardinality(nokta) > 1
           \/ rakam \cup nokta # 1..Len(s)
        THEN ValueError
        ELSE LET kesir == IF nokta = {} THEN 0
                          ELSE Len(s) - (CHOOSE i \in nokta : TRUE)
             IN  Deger(RatNorm([num |-> TamSayi(Replace(s, ".", "")),
                                den |-> OnUssu(kesir)]))

\* the separator handling before float() at lines 518-529: both separators
\* present, only commas, only dots
Ayiklanmis(s) ==
    IF Adet(s, ",") > 0 /\ Adet(s, ".") > 0
    THEN Replace(Replace(s, ".", ""), ",", ".")
    ELSE IF Adet(s, ",") > 0
    THEN Replace(s, ",", ".")
    ELSE IF Adet(s, ".") > 0
    THEN (IF \A u \in NoktaSonrasiUzunluklar(s) : u = 3
          THEN Replace(s, ".", "") ELSE s)
    ELSE s

\* conversion of deger_str in the pattern loop (lines 517-530)
DegerCevir(deger_str) == float(Ayiklanmis(deger_str))

\* conversion of fiyat_str in the quantity-times-price branch (lines 497-506)
FiyatCevir(fiyat_str) ==
    float(IF Adet(fiyat_str, ",") > 0 /\ Adet(fiyat_str, ".") > 0
          THEN Replace(Replace(fiyat_str, ".", ""), ",", ".")
          ELSE IF Adet(fiyat_str, ",") > 0
          THEN Replace(fiyat_str, ",", ".")
          ELSE IF Adet(fiyat_str, ".") > 0
               /\ \A u \in NoktaSonrasiUzunluklar(fiyat_str) : u = 3
          THEN Replace(fiyat_str, ".", "")
          ELSE fiyat_str)

\* conversion of the price in the final fallback (line 547)
YedekFiyatCevir(s) == float(Replace(s, ",", ""))

\* conversion of deger_str in onay_kurgusu_kontrol (lines 982-996)
KontrolCevir(deger_str) ==
    float(IF Adet(deger_str, ",") > 0 /\ Adet(deger_str, ".") > 0
          THEN Replace(Replace(deger_str, ".", ""), ",", ".")
          ELSE IF Adet(deger_str, ",") > 0
          THEN Replace(deger_str, ",", ".")
          ELSE IF Adet(deger_str, ".") > 0
               /\ \A u \in NoktaSonrasiUzunluklar(deger_str) : u = 3
          THEN Replace(deger_str, ".", "")
          ELSE deger_str)

(***************************************************************************)
(* A text is a sequence of tokens separated by single blanks: a label      *)
(* ("Toplam Alim Degeri", "toplam tutar", ...), a numeric string (a        *)
(* maximal run of [\d.,]), a word of letters, a slash, or a line break.    *)
(* The regular expressions are matched on the tokens: \s* and \s+ between  *)
(* two pattern elements skip line breaks, `.` does not.                    *)
(***************************************************************************)
Sayi(s) == [t |-> "sayi", s |-> s]
Kelime(s) == [t |-> "kelime", s |-> s]
Etiket(s) == [t |-> "etiket", s |-> s]
Bolu == [t |-> "bolu", s |-> "/"]
SatirSonu == [t |-> "nl", s |-> ""]

Min(S) == CHOOSE x \in S : \A y \in S : x <= y

\* the next token after i that is not a line break, 0 when there is none
Sonraki(m, i) ==
    LET J == {j \in (i + 1)..Len(m) : m[j].t # "nl"}
    IN  IF J = {} THEN 0 ELSE Min(J)

\* no line break strictly between tokens i and j
AyniSatir(m, i, j) == \A k \in (i + 1)..(j - 1) : m[k].t # "nl"

\* str.upper on the letters the words tried contain
UpperChar(c) ==
    CASE c = "u" -> "U" [] c = "s" -> "S" [] c = "d" -> "D" [] c = "r" -> "R"
      [] c = "b" -> "B" [] c = "e" -> "E" [] c = "t" -> "T" [] c = "y" -> "Y"
      [] c = "o" -> "O" [] c = "n" -> "N" [] c = "k" -> "K" [] c = "v" -> "V"
      [] OTHER -> c

RECURSIVE Upper(_)
Upper(s) ==
    IF s = "" THEN "" ELSE UpperChar(Harf(s, 1)) \o Upper(SubSeq(s, 2, Len(s)))

Kodlar == {"USD", "EUR", "TRY", "RUB"}

\* (rub|eur|usd|try) under re.IGNORECASE
KodMu(w) == Upper(w) \in Kodlar
\* `ton` under re.IGNORECASE
TonMu(w) == Upper(w) = "TON"
\* ([A-Z]{3}) under re.IGNORECASE, followed by the end of the word
UcHarf(w) == Len(w) = 3 /\ \A i \in 1..3 : Harf(w, i) \notin Rakamlar \cup {".", ","}

\* what (\d+) captures in front of `\s*ton`: the digits the numeric string
\* ends with
SonRakamlar(s) ==
    LET K == {k \in 0..Len(s) :
                 \A j \in (Len(s) - k + 1)..Len(s) : Harf(s, j) \in Rakamlar}
        k == CHOOSE x \in K : \A y \in K : y <= x
    IN  SubSeq(s, Len(s) - k + 1, Len(s))

EslesmeYok == [var |-> FALSE, groups |-> <<>>]
Eslesme(g) == [var |-> TRUE, groups |-> g]

AlimDegeriEtiketi == "Toplam Alim Degeri"
PurchaseValueEtiketi == "total purchase value"
ToplamTutarEtiketi == "toplam tutar"
TotalAmountEtiketi == "total amount"

\* <label> ([\d.,]+) \s+ (USD|EUR|TRY|RUB): patterns 1 and 2
EtiketTutarKod(metin, etiket) ==
    LET B == {i \in 1..Len(metin) :
                /\ metin[i] = Etiket(etiket)
                /\ LET j == Sonraki(metin, i)
                   IN  /\ j # 0 /\ metin[j].t = "sayi"
                       /\ LET k == Sonraki(metin, j)
                          IN  /\ k # 0 /\ metin[k].t = "kelime"
                              /\ KodMu(metin[k].s)}
    IN  IF B = {} THEN EslesmeYok
        ELSE LET j == Sonraki(metin, Min(B))
             IN  Eslesme(<<metin[j].s, metin[Sonraki(metin, j)].s>>)

\* <label> ([A-Z]{3}) ([\d,\.]+): patterns 3 to 6
EtiketKodTutar(metin, etiket) ==
    LET B == {i \in 1..Len(metin) :
                /\ metin[i] = Etiket(etiket)
                /\ LET j == Sonraki(metin, i)
                   IN  /\ j # 0 /\ metin[j].t = "kelime" /\ UcHarf(metin[j].s)
                       /\ LET k == Sonraki(metin, j)
                          IN  k # 0 /\ metin[k].t = "sayi"}
    IN  IF B = {} THEN EslesmeYok
        ELSE LET j == Sonraki(metin, Min(B))
             IN  Eslesme(<<metin[j].s, metin[Sonraki(metin, j)].s>>)

\* token i is a numeric string followed by a currency code
TutarKod(metin, i) ==
    /\ metin[i].t = "sayi"
    /\ LET j == Sonraki(metin, i)
       IN  j # 0 /\ metin[j].t = "kelime" /\ KodMu(metin[j].s)

\* token j is followed by `/ ton`
BoluTon(metin, j) ==
    LET k == Sonraki(metin, j)
    IN  /\ k # 0 /\ metin[k] = Bolu
        /\ LET l == Sonraki(metin, k)
           IN  l # 0 /\ metin[l].t = "kelime" /\ TonMu(metin[l].s)

\* ([\d,\.]+)\s*(rub|eur|usd|try)\s*/\s*ton : pattern 7
TutarKodTon(metin) ==
    LET B == {i \in 1..Len(metin) :
                TutarKod(metin, i) /\ BoluTon(metin, Sonraki(metin, i))}
    IN  IF B = {} THEN EslesmeYok
        ELSE Eslesme(<<metin[Min(B)].s, metin[Sonraki(metin, Min(B))].s>>)

\* ([\d,\.]+)\s*(rub|eur|usd|try)(?!\s*/\s*ton) : pattern 8
TutarKodTonsuz(metin) ==
    LET B == {i \in 1..Len(metin) :
                TutarKod(metin, i) /\ ~BoluTon(metin, Sonraki(metin, i))}
    IN  IF B = {} THEN EslesmeYok
        ELSE Eslesme(<<metin[Min(B)].s, metin[Sonraki(metin, Min(B))].s>>)

\* token i matches (\d+)\s*ton
MiktarTon(metin, i) ==
    /\ metin[i].t = "sayi" /\ SonRakamlar(metin[i].s) # ""
    /\ LET j == Sonraki(metin, i)
       IN  j # 0 /\ metin[j].t = "kelime" /\ TonMu(metin[j].s)

\* the price tokens `.*?([\d,\.]+)\s*(rub|eur|usd|try)` can reach after the
\* quantity at token i: on the line of its `ton`, followed by a code, and by
\* `/ ton` when tonlu
FiyatAdaylari(metin, i, tonlu) ==
    LET j == Sonraki(metin, i)
    IN  {p \in (j + 1)..Len(metin) :
            /\ AyniSatir(metin, j, p)
            /\ TutarKod(metin, p)
            /\ (tonlu => BoluTon(metin, Sonraki(metin, p)))}

\* (\d+)\s*ton.*?([\d,\.]+)\s*(rub|eur|usd|try) : pattern 9, and with a
\* trailing \s*/\s*ton : pattern 10
MiktarFiyatKod(metin, tonlu) ==
    LET B == {i \in 1..Len(metin) :
                MiktarTon(metin, i) /\ FiyatAdaylari(metin, i, tonlu) # {}}
    IN  IF B = {} THEN EslesmeYok
        ELSE LET p == Min(FiyatAdaylari(metin, Min(B), tonlu))
             IN  Eslesme(<<SonRakamlar(metin[Min(B)].s), metin[p].s,
                           metin[Sonraki(metin, p)].s>>)

KalipSayisi == 10

\* the list with the generic amount patterns moved in front of the labelled
deger_kaliplari_GenelOnce(k, metin) ==
    CASE k = 1 -> TutarKodTon(metin)
      [] k = 2 -> TutarKodTonsuz(metin)
      [] k = 3 -> EtiketTutarKod(metin, AlimDegeriEtiketi)
      [] k = 4 -> EtiketTutarKod(metin, AlimDegeriEtiketi)
      [] k = 5 -> EtiketKodTutar(metin, AlimDegeriEtiketi)
      [] k = 6 -> EtiketKodTutar(metin, PurchaseValueEtiketi)
      [] k = 7 -> EtiketKodTutar(metin, ToplamTutarEtiketi)
      [] k = 8 -> EtiketKodTutar(metin, TotalAmountEtiketi)
      [] k = 9 -> MiktarFiyatKod(metin, FALSE)
      [] k = 10 -> MiktarFiyatKod(metin, TRUE)

\* re.search(deger_kaliplari[k], metin, re.IGNORECASE)
deger_kaliplari(k, metin) ==
    CASE k = 1 -> EtiketTutarKod(metin, AlimDegeriEtiketi)
      [] k = 2 -> EtiketTutarKod(metin, AlimDegeriEtiketi)
      [] k = 3 -> EtiketKodTutar(metin, AlimDegeriEtiketi)
      [] k = 4 -> EtiketKodTutar(metin, PurchaseValueEtiketi)
      [] k = 5 -> EtiketKodTutar(metin, ToplamTutarEtiketi)
      [] k = 6 -> EtiketKodTutar(metin, TotalAmountEtiketi)
      [] k = 7 -> TutarKodTon(metin)
      [] k = 8 -> TutarKodTonsuz(metin)
      [] k = 9 -> MiktarFiyatKod(metin, FALSE)
      [] k = 10 -> MiktarFiyatKod(metin, TRUE)

\* miktar * fiyat
RatMul(a, b) == RatNorm([num |-> a.num * b.num, den |-> a.den * b.den])

\* The outcome of one pass of the loop body for pattern k (lines 479-533):
\* "yok" (no match), "hata" (ValueError, continue) or "tamam" (return).
\* deger_str and miktar record what was converted, yer the converting site.
Sonucsuz(durum) ==
    [durum |-> durum, deger |-> Rat(0), para_birimi |-> "",
     deger_str |-> "", miktar |-> 0, yer |-> "yok"]

Cevrilen(c, deger_str, birim) ==
    IF c.ok
    THEN [durum |-> "tamam", deger |-> c.v, para_birimi |-> birim,
          deger_str |-> deger_str, miktar |-> 1, yer |-> "deger"]
    ELSE Sonucsuz("hata")

TutarCevir(deger_str, birim) ==
    Cevrilen(DegerCevir(deger_str), deger_str, birim)

\* miktar * fiyat of a match with both groups (lines 497-510)
MiktarCarpiFiyat(miktar, fiyat, deger_str, birim) ==
    IF miktar.ok /\ fiyat.ok
    THEN [durum |-> "tamam", deger |-> RatMul(miktar.v, fiyat.v),
          para_birimi |-> birim, deger_str |-> deger_str,
          miktar |-> miktar.v.num, yer |-> "fiyat"]
    ELSE Sonucsuz("hata")

\* the branches on len(eslesme.groups()) (lines 482-533)
GruplariIsle(groups) ==
    IF Len(groups) = 2 /\ groups[2] \in Kodlar
    THEN TutarCevir(groups[1], Upper(groups[2]))
    ELSE IF Len(groups) = 2
    THEN TutarCevir(groups[2], Upper(groups[1]))
    ELSE IF groups[1] # "" /\ groups[2] # ""
    THEN MiktarCarpiFiyat(float(groups[1]), FiyatCevir(groups[2]),
                          groups[2], Upper(groups[3]))
    ELSE TutarCevir(groups[1], Upper(groups[2]))

EslesmeyiIsle(eslesme) ==
    IF ~eslesme.var THEN Sonucsuz("yok") ELSE GruplariIsle(eslesme.groups)

Deneme(k, metin) == EslesmeyiIsle(deger_kaliplari(k, metin))

\* the first of the patterns K, 0 when there is none
IlkKalip(K) == IF K = {} THEN 0 ELSE Min(K)

\* the loop `for kalip in deger_kaliplari` leaves at the first pattern whose
\* pass returns; a pass that raises ValueError continues with the next
Kazanan_IlkEslesme(metin) ==
    LET K == {k \in 1..KalipSayisi : Deneme(k, metin).durum # "yok"}
    IN  IF K # {} /\ Deneme(Min(K), metin).durum = "tamam" THEN Min(K) ELSE 0

Kazanan(metin) ==
    IlkKalip({k \in 1..KalipSayisi : Deneme(k, metin).durum = "tamam"})

Varsayilan ==
    [durum |-> "tamam", deger |-> Rat(0), para_birimi |-> "USD",
     deger_str |-> "", miktar |-> 0, yer |-> "yok"]

\* '120.000KG' in metin and '62.300RUB' in metin (line 537): tokens are
\* separated by blanks, so only a word spelled so can contain the literal
SabitEslesme(metin) ==
    /\ \E i \in 1..Len(metin) : metin[i] = Kelime("120.000KG")
    /\ \E i \in 1..Len(metin) : metin[i] = Kelime("62.300RUB")

\* the code after the loop (lines 535-553)
Yedek(metin) ==
    LET M == {i \in 1..Len(metin) : MiktarTon(metin, i)}
        F == {i \in 1..Len(metin) :
                /\ TutarKod(metin, i)
                /\ Upper(metin[Sonraki(metin, i)].s) = "RUB"
                /\ BoluTon(metin, Sonraki(metin, i))}
    IN  IF SabitEslesme(metin)
        THEN [durum |-> "tamam", deger |-> Rat(7476000), para_birimi |-> "RUB",
              deger_str |-> "", miktar |-> 0, yer |-> "sabit"]
        ELSE IF M # {} /\ F # {}
        THEN LET miktar == float(SonRakamlar(metin[Min(M)].s))
                 fiyat == YedekFiyatCevir(metin[Min(F)].s)
             IN  IF miktar.ok /\ fiyat.ok
                 THEN [durum |-> "tamam", deger |-> RatMul(miktar.v, fiyat.v),
                       para_birimi |-> "RUB", deger_str |-> metin[Min(F)].s,
                       miktar |-> miktar.v.num, yer |-> "yedek"]
                 ELSE Varsayilan
        ELSE Varsayilan

\* the record returned for pattern k whose pass gave r
DegerSonucu(k, r) ==
    [deger |-> r.deger, para_birimi |-> r.para_birimi, kalip |-> k,
     deger_str |-> r.deger_str, miktar |-> r.miktar, yer |-> r.yer]

KalipSonucu(k, metin) ==
    DegerSonucu(k, IF k # 0 THEN Deneme(k, metin) ELSE Yedek(metin))

\* toplam_alim_degeri_bul(metin): the returned (deger, para_birimi), with
\* kalip the number of the pattern that returned (0: the code after the loop)
toplam_alim_degeri_bul(metin) == KalipSonucu(Kazanan(metin), metin)

\* the four deger_desenleri of onay_kurgusu_kontrol (lines 962-967): the
\* label, a numeric string and USD, with optional blanks or a colon between
deger_desenleri(i, metin) ==
    LET B == {b \in 1..Len(metin) :
                /\ metin[b] = Etiket(AlimDegeriEtiketi)
                /\ LET j == Sonraki(metin, b)
                   IN  /\ j # 0 /\ metin[j].t = "sayi"
                       /\ LET k == Sonraki(metin, j)
                          IN  /\ k # 0 /\ metin[k].t = "kelime"
                              /\ Upper(metin[k].s) = "USD"}
    IN  IF i \in 1..4 /\ B # {}
        THEN Eslesme(<<metin[Sonraki(metin, Min(B))].s>>)
        ELSE EslesmeYok

\* the if/elif chain of onay_kurgusu_kontrol (lines 1009-1022)
KontrolMercii(d) ==
    IF RatLeq(d, Rat(1000)) THEN "Satinalmaci"
    ELSE IF RatLeq(d, Rat(5000)) THEN "Sef / Kategori Yoneticisi"
    ELSE IF RatLeq(d, Rat(75000)) THEN "Mudur / Bolge Muduru"
    ELSE IF RatLeq(d, Rat(150000)) THEN "Direktor"
    ELSE IF RatLeq(d, Rat(400000)) THEN "Kidemli Direktor"
    ELSE IF RatLeq(d, Rat(600000)) THEN "Genel Mudur Yardimcisi"
    ELSE "Genel Mudur"

\* the result for the value d converted from deger_str (lines 1009-1028)
KontrolSonucu(d, deger_str) ==
    [toplam_deger |-> d, para_birimi |-> "USD",
     onay_mercii |-> KontrolMercii(d), deger_str |-> deger_str]

KontrolDegeri(deger_str) == KontrolSonucu(KontrolCevir(deger_str).v, deger_str)

\* K: the patterns that match and whose string converts
KontrolSecimi(metin, K) ==
    IF K = {} THEN KontrolSonucu(Rat(0), "")
    ELSE KontrolDegeri(deger_desenleri(Min(K), metin).groups[1])

\* onay_kurgusu_kontrol(metin): toplam_deger is the local value the returned
\* strings are formatted from, deger_str the string it was converted from
onay_kurgusu_kontrol(metin) ==
    KontrolSecimi(metin,
        {i \in 1..4 : /\ deger_desenleri(i, metin).var
                      /\ KontrolCevir(deger_desenleri(i, metin).groups[1]).ok})

(***************************************************************************)
(* Texts tried: up to MaxParca expressions, one after the other            *)
(***************************************************************************)
MaxParca == 3

Parcalar ==
    {<<Etiket(AlimDegeriEtiketi), Sayi("94.629,56"), Kelime("USD")>>,
     <<Etiket(AlimDegeriEtiketi), Sayi("1.2.3"), Kelime("USD")>>,
     <<Etiket(ToplamTutarEtiketi), Kelime("KDV"), Sayi("1.234")>>,
     <<Sayi("7476000"), Kelime("EUR")>>,
     <<Sayi("1.2"), Kelime("TRY")>>,
     <<Sayi("1.2.3"), Kelime("EUR")>>,
     <<Sayi("62.300"), Kelime("RUB"), Bolu, Kelime("ton")>>,
     <<Sayi("62.300"), Kelime("rub"), Bolu, Kelime("ton")>>,
     <<Sayi("120"), Kelime("ton")>>,
     <<SatirSonu>>}

RECURSIVE Birlestir(_)
Birlestir(d) == IF d = <<>> THEN <<>> ELSE Head(d) \o Birlestir(Tail(d))

Metinler == {Birlestir(d) : d \in Diziler(Parcalar, MaxParca)}

JobBosta ==
    /\ analiz_sonuclari = <<>>
    /\ dosya = [id \in FileIds |-> [var |-> FALSE, ad |-> ""]]
    /\ upload = [id \in FileIds |-> "idle"]
    /\ pc = [id \in FileIds |-> "none"]
    /\ sonuc = [id \in FileIds |-> AnalizSonucu(Yok)]
    /\ hata = [id \in FileIds |-> ""]
    /\ cikarim = [id \in FileIds |-> "none"]
    /\ yanit = [id \in FileIds |-> [code |-> 0]]
    /\ gecmis = [id \in FileIds |-> <<>>]

InitDeger ==
    /\ JobBosta
    /\ OnayBosta
    /\ belge_metni \in Metinler
    /\ alim_degeri = YokKayit
    /\ kontrol = YokKayit
    /\ satirlar = <<"">>
    /\ riskler = YokKayit
    /\ ozet_metni = <<>>
    /\ ozet = YokKayit
    /\ AnalizBosta

\* a call of toplam_alim_degeri_bul on the text
ToplamAlimDegeriBul ==
    /\ alim_degeri = YokKayit
    /\ alim_degeri' = toplam_alim_degeri_bul(belge_metni)
    /\ UNCHANGED <<belge_metni, kontrol>>
    /\ UNCHANGED <<jobVars, onayVars, riskVars, ozetVars, analizVars>>

\* a call of onay_kurgusu_kontrol on the text
OnayKurgusuKontrol ==
    /\ kontrol = YokKayit
    /\ kontrol' = onay_kurgusu_kontrol(belge_metni)
    /\ UNCHANGED <<belge_metni, alim_degeri>>
    /\ UNCHANGED <<jobVars, onayVars, riskVars, ozetVars, analizVars>>

NextDeger == ToplamAlimDegeriBul \/ OnayKurgusuKontrol

SpecDeger == InitDeger /\ [][NextDeger]_vars

(***************************************************************************)
(* Properties of the value extraction                                      *)
(***************************************************************************)
DegerBulundu == alim_degeri # YokKayit
KontrolYapildi == kontrol # YokKayit

\* the tokens of `parca` stand in the text from token i on
Burada(m, i, parca) ==
    /\ i + Len(parca) - 1 <= Len(m)
    /\ \A k \in 1..Len(parca) : m[i + k - 1] = parca[k]
Icerir(m, parca) == \E i \in 1..Len(m) : Burada(m, i, parca)

\* C11: every conversion of a captured numeric string gives the value of
\* the three-rule separator policy ('.' and ',' together: '.' thousands and
\* ',' decimal; ',' alone: decimal; '.' alone: thousands when every group
\* after the first has three digits, decimal otherwise), at every site:
\* the pattern loop, its quantity-times-price branch, the final
\* quantity-times-price fallback, and onay_kurgusu_kontrol.
C11_OneLocalePolicy ==
    /\ (DegerBulundu /\ alim_degeri.yer \in {"deger", "fiyat", "yedek"}) =>
          /\ DegerCevir(alim_degeri.deger_str).ok
          /\ alim_degeri.deger =
                RatMul(Rat(alim_degeri.miktar), DegerCevir(alim_degeri.deger_str).v)
    /\ (KontrolYapildi /\ kontrol.deger_str # "") =>
          /\ DegerCevir(kontrol.deger_str).ok
          /\ kontrol.toplam_deger = DegerCevir(kontrol.deger_str).v

EtiketliToplam ==
    <<Etiket(AlimDegeriEtiketi), Sayi("94.629,56"), Kelime("USD")>>

\* the first "Toplam Alim Degeri" label of the text opens EtiketliToplam
IlkEtiketliToplam(m) ==
    LET E == {i \in 1..Len(m) : m[i] = Etiket(AlimDegeriEtiketi)}
    IN  E # {} /\ Burada(m, Min(E), EtiketliToplam)

MiktarIfadesi == <<Sayi("120"), Kelime("ton")>>
EtiketVar(m) == \E i \in 1..Len(m) : m[i].t = "etiket"
TonFiyatVar(m) ==
    \E i \in 1..Len(m) :
        /\ m[i] = Sayi("62.300") /\ TutarKod(m, i)
        /\ Upper(m[Sonraki(m, i)].s) = "RUB"
        /\ BoluTon(m, Sonraki(m, i))

\* C13: a text without a labelled total that holds the quantity '120 ton'
\* and the unit price '62.300 RUB/ton' (the code in either letter case, the
\* two on one line or not, in either order) yields quantity times unit
\* price, (7476000, 'RUB').
C13_QuantityTimesUnitPrice ==
    (/\ DegerBulundu
     /\ ~EtiketVar(belge_metni)
     /\ Icerir(belge_metni, MiktarIfadesi)
     /\ TonFiyatVar(belge_metni)
     /\ \A i \in 1..Len(belge_metni) :
           TutarKod(belge_metni, i) => belge_metni[i] = Sayi("62.300"))
    => /\ alim_degeri.deger = Rat(7476000)
       /\ alim_degeri.para_birimi = "RUB"

\* C14: toplam_alim_degeri_bul returns for every text an amount >= 0 and a
\* currency of {USD, EUR, TRY, RUB}; a text in which no pattern and no
\* fallback finds an amount gives (0, 'USD').
C14_AmountAndCurrencyInRange ==
    DegerBulundu =>
        /\ alim_degeri.deger.num >= 0
        /\ alim_degeri.para_birimi \in Kodlar
        /\ alim_degeri.yer = "yok" =>
              alim_degeri.deger = Rat(0) /\ alim_degeri.para_birimi = "USD"

Hatalilar(m) == {k \in 1..KalipSayisi : Deneme(k, m).durum = "hata"}
Donenler(m) == {k \in 1..KalipSayisi : Deneme(k, m).durum = "tamam"}

\* C20: a pattern whose captured string fails the conversion is skipped and
\* the later patterns are still tried: the result is that of the first
\* pattern whose pass converts, whatever failed before it; when no pattern
\* converts and the fallback finds nothing, the amount is zero.
C20_FailedConversionSkipsOnlyThatPattern ==
    DegerBulundu =>
        /\ Donenler(belge_metni) # {} =>
              /\ alim_degeri.kalip = Min(Donenler(belge_metni))
              /\ alim_degeri.deger =
                    Deneme(Min(Donenler(belge_metni)), belge_metni).deger
              /\ alim_degeri.para_birimi =
                    Deneme(Min(Donenler(belge_metni)), belge_metni).para_birimi
        /\ (Donenler(belge_metni) = {} /\ Yedek(belge_metni).yer = "yok") =>
              alim_degeri.deger = Rat(0)

\* a pattern failed the conversion and a later one decided the result
C20_Witness ==
    /\ DegerBulundu
    /\ Hatalilar(belge_metni) # {}
    /\ Donenler(belge_metni) # {}
    /\ Min(Hatalilar(belge_metni)) < alim_degeri.kalip
    /\ alim_degeri.deger.num > 0

(***************************************************************************)
(* Risk detection: risk_analizi_yap                                        *)
(*                                                                         *)
(* The text is the list of its lines.  The phrase tables hold a few of     *)
(* the phrases of each category, in the order of the source's lists.  The  *)
(* aciklama of a finding is the record of the parts its text is formatted  *)
(* from (the recommendation text follows the category like sebep).         *)
(***************************************************************************)

olumsuzluk_ifadeleri ==
    <<"yoktur", "degildir", "bulunmamaktadir", "tespit edilmemistir">>

yuksek_risk_kelimeler ==
    {"ambargo", "OFAC listesi", "yolsuzluk", "rusvet", "hukuksuz"}
dusuk_risk_kelimeler == {"hafif gecikme"}

RECURSIVE Strip(_)
\* str.strip on blanks
Strip(s) ==
    IF s = "" THEN ""
    ELSE IF Harf(s, 1) = " " THEN Strip(SubSeq(s, 2, Len(s)))
    ELSE IF Harf(s, Len(s)) = " " THEN Strip(SubSeq(s, 1, Len(s) - 1))
    ELSE s

\* cumle.endswith('.') or cumle.endswith('!') or cumle.endswith('?')
CumleSonu(s) == s # "" /\ Harf(s, Len(s)) \in {".", "!", "?"}

RECURSIVE CumleEkle(_, _, _, _)
\* the loop of tam_cumle_al over the lines j..son
CumleEkle(lines, cumle, j, son) ==
    IF j > son THEN cumle
    ELSE LET next_line == Strip(lines[j])
         IN  IF next_line = "" THEN CumleEkle(lines, cumle, j + 1, son)
             ELSE IF CumleSonu(next_line) THEN cumle \o " " \o next_line
             ELSE CumleEkle(lines, cumle \o " " \o next_line, j + 1, son)

\* tam_cumle_al(satirlar, i - 1, ""): the sentence that starts on line i
tam_cumle_al(lines, i) ==
    LET cumle == Strip(lines[i])
        son == IF i + 2 < Len(lines) THEN i + 2 ELSE Len(lines)
    IN  IF CumleSonu(cumle) THEN cumle ELSE CumleEkle(lines, cumle, i + 1, son)

\* any(olumsuz in satir_temiz for olumsuz in olumsuzluk_ifadeleri)
OlumsuzlukVar_Hic(satir_temiz) == FALSE

OlumsuzlukVar(satir_temiz) ==
    \E k \in 1..Len(olumsuzluk_ifadeleri) :
        Contains(satir_temiz, olumsuzluk_ifadeleri[k])

RECURSIVE Bulunanlar(_, _, _)
\* the (kategori, risk_kelime) pairs of one list found in the line
Bulunanlar(liste, kategori, satir_temiz) ==
    IF liste = <<>> THEN <<>>
    ELSE (IF Contains(satir_temiz, Head(liste))
          THEN <<[kategori |-> kategori, kelime |-> Head(liste)]>>
          ELSE <<>>)
           \o Bulunanlar(Tail(liste), kategori, satir_temiz)

tespit_edilen_riskler(satir_temiz) ==
    Bulunanlar(asistan.ticari_riskler, "Ticari Risk", satir_temiz)
      \o Bulunanlar(asistan.etik_riskler, "Etik Risk", satir_temiz)
      \o Bulunanlar(asistan.yasal_riskler, "Yasal Risk", satir_temiz)

RECURSIVE Tara(_, _, _)
\* the loop over the lines (lines 301-342): cumle_risk_map as the list of
\* its items in insertion order
Tara(lines, i, map) ==
    IF i > Len(lines) THEN map
    ELSE LET satir_temiz == Strip(Lower(lines[i]))
             tam_ifade == tam_cumle_al(lines, i)
             bulunan == tespit_edilen_riskler(satir_temiz)
             cumle_key == <<tam_ifade, i>>
             K == {k \in 1..Len(map) : map[k].key = cumle_key}
         IN  IF OlumsuzlukVar(satir_temiz) THEN Tara(lines, i + 1, map)
             ELSE IF bulunan = <<>> THEN Tara(lines, i + 1, map)
             ELSE IF K # {}
             THEN Tara(lines, i + 1,
                      [map EXCEPT ![Min(K)].riskler = @ \o bulunan])
             ELSE Tara(lines, i + 1,
                      Append(map, [key |-> cumle_key, riskler |-> bulunan,
                                   ifade |-> tam_ifade, satir_no |-> i]))

RECURSIVE Kategoriler(_)
\* list(kategori_groups.keys()): the categories in first-seen order
Kategoriler(rs) ==
    IF rs = <<>> THEN <<>>
    ELSE LET once == Kategoriler(SubSeq(rs, 1, Len(rs) - 1))
             kat == rs[Len(rs)].kategori
         IN  IF \E k \in 1..Len(once) : once[k] = kat THEN once
             ELSE Append(once, kat)

RECURSIVE Kelimeler(_, _)
\* kategori_groups[kat]
Kelimeler(rs, kat) ==
    IF rs = <<>> THEN <<>>
    ELSE (IF Head(rs).kategori = kat THEN <<Head(rs).kelime>> ELSE <<>>)
           \o Kelimeler(Tail(rs), kat)

RECURSIVE TumKelimeler(_, _)
TumKelimeler(rs, kats) ==
    IF kats = <<>> THEN <<>>
    ELSE Kelimeler(rs, Head(kats)) \o TumKelimeler(rs, Tail(kats))

RECURSIVE Join(_, _)
\* sep.join(q)
Join(q, sep) ==
    IF q = <<>> THEN ""
    ELSE IF Len(q) = 1 THEN q[1]
    ELSE q[1] \o sep \o Join(Tail(q), sep)

\* a variant that looks for a phrase of the low table first
risk_skoru_hesapla_OnceDusuk(kelimeler) ==
    IF \E k \in 1..Len(kelimeler) : kelimeler[k] \in dusuk_risk_kelimeler
    THEN 1
    ELSE IF \E k \in 1..Len(kelimeler) : kelimeler[k] \in yuksek_risk_kelimeler
    THEN 3
    ELSE 2

\* risk_skoru_hesapla(kelimeler, kategori) (lines 354-414)
risk_skoru_hesapla(kelimeler) ==
    IF \E k \in 1..Len(kelimeler) : kelimeler[k] \in yuksek_risk_kelimeler
    THEN 3
    ELSE IF \E k \in 1..Len(kelimeler) : kelimeler[k] \in dusuk_risk_kelimeler
    THEN 1
    ELSE 2

Seviye(skor) == IF skor = 1 THEN "Dusuk" ELSE IF skor = 2 THEN "Orta" ELSE "Yuksek"

\* the first value of sebep_oneriler_olustur
Sebep(kategori) ==
    IF kategori = "Ticari Risk" THEN "Finansal ve ticari sureclerde risk tespit edildi"
    ELSE IF kategori = "Etik Risk" THEN "Etik kurallara aykiri durum tespit edildi"
    ELSE IF kategori = "Yasal Risk" THEN "Yasal mevzuata uyumsuzluk tespit edildi"
    ELSE "Birden fazla kategoride risk tespit edildi"

\* the RiskTespiti built from one item of cumle_risk_map (lines 344-456)
RiskTespiti(risk_data) ==
    LET kategoriler == Kategoriler(risk_data.riskler)
        tek == Len(kategoriler) = 1
        kategori == IF tek THEN kategoriler[1] ELSE Join(kategoriler, ", ")
        kelimeler == IF tek THEN Kelimeler(risk_data.riskler, kategoriler[1])
                     ELSE TumKelimeler(risk_data.riskler, kategoriler)
        risk_skoru == IF tek THEN risk_skoru_hesapla(kelimeler) ELSE 3
    IN  [kategori |-> kategori,
         ifade |-> risk_data.ifade,
         aciklama |-> [sebep |-> Sebep(kategori),
                       ifadeler |-> Join(kelimeler, ", "),
                       risk_skoru |-> risk_skoru,
                       seviye |-> Seviye(risk_skoru)],
         satir_no |-> risk_data.satir_no]

risk_analizi_yap(lines) ==
    LET map == Tara(lines, 1, <<>>)
    IN  [k \in 1..Len(map) |-> RiskTespiti(map[k])]

(***************************************************************************)
(* Texts tried: up to MaxSatir lines                                       *)
(***************************************************************************)
MaxSatir == 3

Satirlar ==
    {"ambargo riski var ve",
     "yolsuzluk iddiasi mevcut.",
     "AMBARGO ve hediye mevcut.",
     "ambargo riski yoktur.",
     "",
     " hafif gecikme",
     "enflasyon ve hafif gecikme.",
     "hukuksuz",
     "OFAC listesi kontrol edilmeli.",
     "Bu islemde rusvet riski vardir.",
     "enflasyon",
     "hafif gecikme ve ambargo riski mevcut."}

RiskMetinleri == Diziler(Satirlar, MaxSatir) \ {<<>>}

InitRisk ==
    /\ JobBosta
    /\ OnayBosta
    /\ belge_metni = <<>>
    /\ alim_degeri = YokKayit
    /\ kontrol = YokKayit
    /\ satirlar \in RiskMetinleri
    /\ riskler = YokKayit
    /\ ozet_metni = <<>>
    /\ ozet = YokKayit
    /\ AnalizBosta

\* a call of risk_analizi_yap on the text
RiskAnaliziYap ==
    /\ riskler = YokKayit
    /\ riskler' = [bulgular |-> risk_analizi_yap(satirlar)]
    /\ UNCHANGED satirlar
    /\ UNCHANGED <<jobVars, onayVars, degerVars, ozetVars, analizVars>>

NextRisk == RiskAnaliziYap

SpecRisk == InitRisk /\ [][NextRisk]_vars

(***************************************************************************)
(* Properties of the risk detection                                        *)
(***************************************************************************)
RiskYapildi == riskler # YokKayit

\* line i of the text contains a phrase of the negation list
OlumsuzSatir(i) ==
    \E k \in 1..Len(olumsuzluk_ifadeleri) :
        Contains(Lower(satirlar[i]), olumsuzluk_ifadeleri[k])

\* line i of the text contains a risk phrase
RiskliSatir(i) ==
    \E liste \in {ticari_riskler, etik_riskler, yasal_riskler} :
        \E k \in 1..Len(liste) : Contains(Lower(satirlar[i]), liste[k])

\* the phrases of the three category lists
RiskIfadeleri ==
    {asistan.ticari_riskler[k] : k \in 1..Len(asistan.ticari_riskler)}
      \cup {asistan.etik_riskler[k] : k \in 1..Len(asistan.etik_riskler)}
      \cup {asistan.yasal_riskler[k] : k \in 1..Len(asistan.yasal_riskler)}

\* C22: every phrase of the three category lists is matched as a
\* case-insensitive substring: for every non-negated line and every phrase
\* the line contains in any letter case, a finding of that line lists the
\* phrase.
C22_EveryPhraseMatchedAnyCase ==
    RiskYapildi =>
        \A i \in 1..Len(satirlar) : \A p \in RiskIfadeleri :
            (~OlumsuzSatir(i) /\ Contains(Lower(satirlar[i]), Lower(p)))
                => \E k \in 1..Len(riskler.bulgular) :
                      /\ riskler.bulgular[k].satir_no = i
                      /\ Contains(riskler.bulgular[k].aciklama.ifadeler, p)

\* the phrase p is one of the comma-joined phrases a finding lists
Listeler(ifadeler, p) ==
    \/ ifadeler = p
    \/ /\ Len(ifadeler) > Len(p) + 2
       /\ \/ SubSeq(ifadeler, 1, Len(p) + 2) = p \o ", "
          \/ SubSeq(ifadeler, Len(ifadeler) - Len(p) - 1, Len(ifadeler))
                = ", " \o p
          \/ Contains(ifadeler, ", " \o p \o ", ")

\* High if a listed phrase is in the high table, else Low if one is in the
\* low table, else Medium
TabloSeviyesi(ifadeler) ==
    IF \E p \in yuksek_risk_kelimeler : Listeler(ifadeler, p) THEN "Yuksek"
    ELSE IF \E p \in dusuk_risk_kelimeler : Listeler(ifadeler, p) THEN "Dusuk"
    ELSE "Orta"

RusvetSatiri == "Bu islemde rusvet riski vardir."

\* C23: a finding of a single category has severity High if one of its
\* matched phrases is in the high-severity table, otherwise Low if one is
\* in the low-severity table, otherwise Medium; the line 'Bu islemde
\* rusvet riski vardir.' yields exactly one finding, of category 'Etik
\* Risk' and severity High.
C23_SeverityOfSingleCategory ==
    RiskYapildi =>
        /\ \A k \in 1..Len(riskler.bulgular) :
              riskler.bulgular[k].kategori
                  \in {"Ticari Risk", "Etik Risk", "Yasal Risk"}
              => riskler.bulgular[k].aciklama.seviye
                    = TabloSeviyesi(riskler.bulgular[k].aciklama.ifadeler)
        /\ \A i \in 1..Len(satirlar) :
              satirlar[i] = RusvetSatiri
              => /\ Cardinality({k \in 1..Len(riskler.bulgular) :
                                    riskler.bulgular[k].satir_no = i}) = 1
                 /\ \A k \in 1..Len(riskler.bulgular) :
                       riskler.bulgular[k].satir_no = i
                       => /\ riskler.bulgular[k].kategori = "Etik Risk"
                          /\ riskler.bulgular[k].aciklama.seviye = "Yuksek"

\* analysed: the bribery line, a line with a low and a high phrase of one
\* category, and a line with a medium phrase alone, each reported with its
\* severity
C23_Witness ==
    /\ RiskYapildi
    /\ satirlar = <<RusvetSatiri, "hafif gecikme ve ambargo riski mevcut.",
                    "enflasyon">>
    /\ Len(riskler.bulgular) = 3
    /\ riskler.bulgular[1].aciklama.ifadeler = "rusvet riski, rusvet"
    /\ riskler.bulgular[2].aciklama.ifadeler = "hafif gecikme, ambargo"
    /\ riskler.bulgular[2].aciklama.seviye = "Yuksek"
    /\ riskler.bulgular[3].aciklama.seviye = "Orta"

\* C15: a line that contains a phrase of the negation list produces no
\* finding, whatever risk phrases it contains: no returned finding carries
\* the line number of a negated line.
C15_NegatedLineHasNoFinding ==
    RiskYapildi =>
        \A k \in 1..Len(riskler.bulgular) :
            ~OlumsuzSatir(riskler.bulgular[k].satir_no)

\* a negated line with a risk phrase stands next to a line that is reported
C15_Witness ==
    /\ RiskYapildi
    /\ \E i \in 1..Len(satirlar) : OlumsuzSatir(i) /\ RiskliSatir(i)
    /\ riskler.bulgular # <<>>

\* line j is one of the lines the sentence that starts on line i is
\* reconstructed from
CumleninSatiri(i, j) ==
    /\ i < j /\ j <= i + 2 /\ j <= Len(satirlar)
    /\ Strip(satirlar[j]) # ""
    /\ \A k \in i..(j - 1) : ~CumleSonu(Strip(satirlar[k]))

\* C16: the risk-phrase hits of one reconstructed sentence are reported in
\* a single finding, also when they lie on different lines of the
\* sentence; a finding of more than one category has severity High and the
\* comma-joined categories.
C16_SentenceHitsMerge ==
    RiskYapildi =>
        /\ \A i, j \in 1..Len(satirlar) :
              (/\ CumleninSatiri(i, j)
               /\ RiskliSatir(i) /\ ~OlumsuzSatir(i)
               /\ RiskliSatir(j) /\ ~OlumsuzSatir(j))
              => Cardinality({k \in 1..Len(riskler.bulgular) :
                                 riskler.bulgular[k].satir_no \in {i, j}}) = 1
        /\ \A k \in 1..Len(riskler.bulgular) :
              Contains(riskler.bulgular[k].kategori, ", ") =>
                  riskler.bulgular[k].aciklama.seviye = "Yuksek"

(***************************************************************************)
(* Summarizer: extractive_ozet_olustur                                     *)
(*                                                                         *)
(* A text is the list of its sentences, a sentence the list of its words;  *)
(* the string is the sentences, each closed by '.', joined by one blank.   *)
(* A sentence value carries `nokta`: whether its string ends with the      *)
(* full stop (the sentences sumy returns do, those of cumle_segmentasyonu  *)
(* do not).  The scores TfidfVectorizer and TextRank give the sentences    *)
(* are an input: a ranking drawn from Siralamalar.                         *)
(***************************************************************************)
OzetCumleSayisi == 5        \* cumle_sayisi handed to tfidf_ozet, textrank_ozet
EnFazlaCumle == 7           \* benzersiz_cumleler[:7]
EnAzMetin == 50             \* len(metin.strip()) < 50
EnAzCumle == 10             \* len(c.strip()) > 10

Cumle(kelimeler, nokta) == [kelimeler |-> kelimeler, nokta |-> nokta]

RECURSIVE Toplam(_)
\* sum of a sequence of numbers
Toplam(q) == IF q = <<>> THEN 0 ELSE Head(q) + Toplam(Tail(q))

\* len of the sentence's string
CumleUzunlugu(c) ==
    Toplam([k \in 1..Len(c.kelimeler) |-> Len(c.kelimeler[k])])
      + (IF c.kelimeler = <<>> THEN 0 ELSE Len(c.kelimeler) - 1)
      + (IF c.nokta THEN 1 ELSE 0)

\* len(metin.strip())
MetinUzunlugu(cumleler) ==
    Toplam([k \in 1..Len(cumleler) |-> CumleUzunlugu(Cumle(cumleler[k], TRUE))])
      + (IF cumleler = <<>> THEN 0 ELSE Len(cumleler) - 1)

\* cumle_segmentasyonu: the stripped pieces between the full stops that are
\* longer than 10 characters
cumle_segmentasyonu(cumleler) ==
    LET parcalar == [k \in 1..Len(cumleler) |-> Cumle(cumleler[k], FALSE)]
        Uzun(c) == c.kelimeler # <<>> /\ CumleUzunlugu(c) > EnAzCumle
    IN  SelectSeq(parcalar, Uzun)

\* the tokens TfidfVectorizer takes from a sentence: (?u)\b\w\w+\b
Belirtecler(c) == SelectSeq(c.kelimeler, LAMBDA w : Len(w) >= 2)

\* cumle.lower().split()
BoslukKelimeleri(c) ==
    {IF c.nokta /\ k = Len(c.kelimeler)
     THEN Lower(c.kelimeler[k]) \o "." ELSE Lower(c.kelimeler[k]) :
        k \in 1..Len(c.kelimeler)}

TerimSayisi(q, w) == Cardinality({k \in 1..Len(q) : q[k] = w})

RECURSIVE KareToplami(_, _)
\* sum of the squared term counts of q over the terms W
KareToplami(q, W) ==
    IF W = {} THEN 0
    ELSE LET w == CHOOSE x \in W : TRUE
         IN  TerimSayisi(q, w) * TerimSayisi(q, w) + KareToplami(q, W \ {w})

RECURSIVE CarpimToplami(_, _, _)
CarpimToplami(q1, q2, W) ==
    IF W = {} THEN 0
    ELSE LET w == CHOOSE x \in W : TRUE
         IN  TerimSayisi(q1, w) * TerimSayisi(q2, w)
               + CarpimToplami(q1, q2, W \ {w})

\* cumle_benzerlik_orani(cumle1, cumle2).  TfidfVectorizer().fit_transform
\* raises on an empty vocabulary; then the value is the word-set ratio
\* kesisim / birlesim.  Otherwise it is the cosine of the two tf-idf rows:
\* a term of both sentences has idf 1, a term of one has idf 1 + ln(3/2),
\* whose square is taken as 79/40; the value returned is the square of the
\* cosine, [kare |-> TRUE].
cumle_benzerlik_orani(cumle1, cumle2) ==
    LET q1 == [k \in 1..Len(Belirtecler(cumle1)) |-> Lower(Belirtecler(cumle1)[k])]
        q2 == [k \in 1..Len(Belirtecler(cumle2)) |-> Lower(Belirtecler(cumle2)[k])]
        T1 == {q1[k] : k \in 1..Len(q1)}
        T2 == {q2[k] : k \in 1..Len(q2)}
        ic == CarpimToplami(q1, q2, T1 \cap T2)
        n1 == 40 * KareToplami(q1, T1 \cap T2) + 79 * KareToplami(q1, T1 \ T2)
        n2 == 40 * KareToplami(q2, T1 \cap T2) + 79 * KareToplami(q2, T2 \ T1)
        kelimeler1 == BoslukKelimeleri(cumle1)
        kelimeler2 == BoslukKelimeleri(cumle2)
        birlesim == Cardinality(kelimeler1 \cup kelimeler2)
    IN  IF T1 \cup T2 = {}
        THEN [kare |-> FALSE,
              num |-> IF birlesim > 0 THEN Cardinality(kelimeler1 \cap kelimeler2)
                      ELSE 0,
              den |-> IF birlesim > 0 THEN birlesim ELSE 1]
        ELSE IF n1 = 0 \/ n2 = 0
        THEN [kare |-> TRUE, num |-> 0, den |-> 1]
        ELSE [kare |-> TRUE, num |-> 1600 * ic * ic, den |-> n1 * n2]

\* benzerlik > 0.7
EsikUstu(b) ==
    IF b.kare THEN 100 * b.num > 49 * b.den ELSE 10 * b.num > 7 * b.den

\* the order a scorer ranks n sentences in, best first
Siralamalar == {"belge", "ters", "kaydir"}

Reverse(q) == [k \in 1..Len(q) |-> q[Len(q) + 1 - k]]

Sirala(q, sira) ==
    IF sira = "belge" THEN q
    ELSE IF sira = "ters" THEN Reverse(q)
    ELSE IF Len(q) <= 2 THEN q
    ELSE SubSeq(q, 3, Len(q)) \o SubSeq(q, 1, 2)

IlkN(q, n) == SubSeq(q, 1, IF Len(q) < n THEN Len(q) ELSE n)
SonN(q, n) == SubSeq(q, IF Len(q) < n THEN 1 ELSE Len(q) - n + 1, Len(q))

\* tfidf_ozet(metin, cumle_sayisi) with the scores ranking the sentences
\* as sira does; fit_transform raises when no sentence has a token
tfidf_ozet(metin, cumle_sayisi, sira) ==
    LET cumleler == cumle_segmentasyonu(metin)
    IN  IF Len(cumleler) <= cumle_sayisi THEN cumleler
        ELSE IF \A k \in 1..Len(cumleler) : Belirtecler(cumleler[k]) = <<>>
        THEN IlkN(cumleler, 2) \o SonN(cumleler, 2)
        ELSE IlkN(Sirala(cumleler, sira), cumle_sayisi)

\* textrank_ozet(metin, cumle_sayisi): the cumle_sayisi best sentences of
\* sumy in document order, each with its full stop; when sumy raises
\* (tr_sira = "hata") the result of tfidf_ozet
textrank_ozet(metin, cumle_sayisi, tr_sira, sira) ==
    IF tr_sira = "hata" THEN tfidf_ozet(metin, cumle_sayisi, sira)
    ELSE LET hepsi == [k \in 1..Len(metin) |-> k]
             secilen == {Sirala(hepsi, tr_sira)[k] :
                            k \in 1..(IF Len(metin) < cumle_sayisi
                                      THEN Len(metin) ELSE cumle_sayisi)}
             belge_sirasi == SelectSeq(hepsi, LAMBDA k : k \in secilen)
         IN  [k \in 1..Len(belge_sirasi) |-> Cumle(metin[belge_sirasi[k]], TRUE)]

\* pozisyon_bazli_ozet(metin)
pozisyon_bazli_ozet(metin) ==
    LET cumleler == cumle_segmentasyonu(metin)
    IN  IF Len(cumleler) <= 4 THEN cumleler
        ELSE IlkN(cumleler, 2) \o SonN(cumleler, 2)

RECURSIVE Ayikla(_, _, _)
\* the loop `for cumle in tum_cumleler` (lines 877-886)
Ayikla(tum, i, mevcutlar) ==
    IF i > Len(tum) THEN mevcutlar
    ELSE IF \E k \in 1..Len(mevcutlar) :
               EsikUstu(cumle_benzerlik_orani(tum[i], mevcutlar[k]))
    THEN Ayikla(tum, i + 1, mevcutlar)
    ELSE Ayikla(tum, i + 1, Append(mevcutlar, tum[i]))

benzersiz_cumleler_Hepsi(tum_cumleler) == tum_cumleler

benzersiz_cumleler(tum_cumleler) == Ayikla(tum_cumleler, 1, <<>>)

YetersizMetin == "Ozet olusturmak icin yeterli metin bulunamadi."

\* the summary as the list of its bullet lines (final_cumleler), with
\* tum_cumleler, the selectors' lists in a row, the list of textrank_ozet,
\* and whether sumy raised in it
OzetKaydi(tum_cumleler, textrank_cumleler, sumy_hata) ==
    [yeterli |-> TRUE,
     final_cumleler |-> IlkN(benzersiz_cumleler(tum_cumleler), EnFazlaCumle),
     tum_cumleler |-> tum_cumleler,
     textrank_cumleler |-> textrank_cumleler,
     sumy_hata |-> sumy_hata]

\* lines 871-876: tum_cumleler from the three selectors' lists
OzetiBirlestir(tfidf_cumleler, textrank_cumleler, pozisyon_cumleler, sumy_hata) ==
    OzetKaydi(tfidf_cumleler \o textrank_cumleler \o pozisyon_cumleler,
              textrank_cumleler, sumy_hata)

\* extractive_ozet_olustur(metin) (lines 859-896)
extractive_ozet_olustur(metin, sira, tr_sira) ==
    IF metin = <<>> \/ MetinUzunlugu(metin) < EnAzMetin
    THEN [yeterli |-> FALSE, mesaj |-> YetersizMetin]
    ELSE OzetiBirlestir(tfidf_ozet(metin, OzetCumleSayisi, sira),
                        textrank_ozet(metin, OzetCumleSayisi, tr_sira, sira),
                        pozisyon_bazli_ozet(metin), tr_sira = "hata")

(***************************************************************************)
(* Texts tried: the sentences of CumleHavuzu's first MaxCumle, some left   *)
(* out, in the order of the pool                                           *)
(***************************************************************************)
MaxCumle == 9

CumleHavuzu ==
    <<  <<"teslimat", "suresi", "uzadi">>,
        <<"fiyat", "artisi", "bekleniyor">>,
        <<"teslimat", "suresi", "uzadi", "yine">>,
        <<"kisa", "notum">>,
        <<"a", "b", "c", "d", "e", "f", "g">>,
        <<"butce", "onayi", "alindi">>,
        <<"tedarikci", "secimi", "yapildi">>,
        <<"sozlesme", "imzalanacak">>,
        <<"odeme", "plani", "hazir">>,
        <<"kalite", "kontrol", "tamam">>,
        <<"nakliye", "firmasi", "belli">>  >>

HavuzBoyu == IF MaxCumle < Len(CumleHavuzu) THEN MaxCumle ELSE Len(CumleHavuzu)

OzetMetinleri ==
    {[k \in 1..Cardinality(S) |->
         CumleHavuzu[CHOOSE i \in S : Cardinality({j \in S : j < i}) = k - 1]] :
       S \in SUBSET (1..HavuzBoyu)}

InitOzet ==
    /\ JobBosta
    /\ OnayBosta
    /\ belge_metni = <<>>
    /\ alim_degeri = YokKayit
    /\ kontrol = YokKayit
    /\ satirlar = <<"">>
    /\ riskler = YokKayit
    /\ ozet_metni \in OzetMetinleri
    /\ ozet = YokKayit
    /\ AnalizBosta

\* a call of extractive_ozet_olustur on the text
ExtractiveOzetOlustur ==
    /\ ozet = YokKayit
    /\ \E sira \in Siralamalar, tr_sira \in {"hata", "belge", "ters"} :
          ozet' = extractive_ozet_olustur(ozet_metni, sira, tr_sira)
    /\ UNCHANGED ozet_metni
    /\ UNCHANGED <<jobVars, onayVars, degerVars, riskVars, analizVars>>

NextOzet == ExtractiveOzetOlustur

SpecOzet == InitOzet /\ [][NextOzet]_vars

(***************************************************************************)
(* Properties of the summarizer                                            *)
(***************************************************************************)
OzetVar == ozet # YokKayit /\ ozet.yeterli

\* where c first stands in the list q
IlkYer(q, c) == Min({k \in 1..Len(q) : q[k] = c})

\* C17: the summary has at most 7 sentences, each a sentence of the three
\* selectors' lists, in the order in which they are first seen there, and
\* no two of its sentences have a similarity (cumle_benzerlik_orani) above
\* 0.70.
C17_SummaryShortOrderedDistinct ==
    OzetVar =>
        /\ Len(ozet.final_cumleler) <= 7
        /\ \A a \in 1..Len(ozet.final_cumleler) :
              \E k \in 1..Len(ozet.tum_cumleler) :
                  ozet.tum_cumleler[k] = ozet.final_cumleler[a]
        /\ \A a, b \in 1..Len(ozet.final_cumleler) :
              a < b =>
                 /\ IlkYer(ozet.tum_cumleler, ozet.final_cumleler[a])
                      < IlkYer(ozet.tum_cumleler, ozet.final_cumleler[b])
                 /\ ~EsikUstu(cumle_benzerlik_orani(ozet.final_cumleler[a],
                                                    ozet.final_cumleler[b]))
                 /\ ~EsikUstu(cumle_benzerlik_orani(ozet.final_cumleler[b],
                                                    ozet.final_cumleler[a]))

\* seven sentences are kept, an eighth distinct one is cut off, and a
\* sentence was dropped for resembling a kept sentence of other words
C17_Witness ==
    /\ OzetVar
    /\ Len(ozet.final_cumleler) = 7
    /\ Len(benzersiz_cumleler(ozet.tum_cumleler)) > 7
    /\ \E i \in 1..Len(ozet.tum_cumleler), k \in 1..7 :
          /\ ozet.tum_cumleler[i].kelimeler # ozet.final_cumleler[k].kelimeler
          /\ EsikUstu(cumle_benzerlik_orani(ozet.tum_cumleler[i],
                                            ozet.final_cumleler[k]))

\* C25: cumle_segmentasyonu discards exactly the fragments that have fewer
\* than 10 characters after trimming, a fragment of exactly 10 characters
\* is kept: of a text of at most four sentences, whose segmented sentences
\* all stand in the position selector's list, the fragments in the
\* selectors' lists are those of 10 characters or more.
C25_TenCharacterFragmentKept ==
    (OzetVar /\ Len(ozet_metni) <= 4)
        => \A k \in 1..Len(ozet_metni) :
              CumleUzunlugu(Cumle(ozet_metni[k], FALSE)) >= 10
              <=> \E a \in 1..Len(ozet.tum_cumleler) :
                     ozet.tum_cumleler[a] = Cumle(ozet_metni[k], FALSE)

\* cumleler[:2] + cumleler[-2:]
IlkIkiSonIki(cumleler) ==
    SubSeq(cumleler, 1, IF Len(cumleler) < 2 THEN Len(cumleler) ELSE 2)
      \o SubSeq(cumleler, IF Len(cumleler) < 2 THEN 1 ELSE Len(cumleler) - 1,
                Len(cumleler))

\* C24: when a scoring strategy of the summarizer fails internally, that
\* strategy returns the first two and the last two sentences, and the
\* summary is still made; here for textrank_ozet on a text of four or more
\* segmented sentences, whose list is the first two and the last two of
\* them whenever sumy raised.
C24_FailedStrategyFirstTwoLastTwo ==
    (OzetVar /\ ozet.sumy_hata /\ Len(cumle_segmentasyonu(ozet_metni)) >= 4)
        => /\ ozet.textrank_cumleler
                = IlkIkiSonIki(cumle_segmentasyonu(ozet_metni))
           /\ ozet.final_cumleler # <<>>

(***************************************************************************)
(* The field extractors of the pipeline, on the text as a string           *)
(*                                                                         *)
(* The text is a string whose lines are separated by "\n"; Turkish letters *)
(* are written as their base letters.  A regular expression is a list of   *)
(* elements: a literal, compared without case as re.IGNORECASE does, or a  *)
(* run of one character class (blanks and line breaks, digits, the rest of *)
(* the line, the rest of the text), greedy and giving characters back as   *)
(* far as the rest of the expression needs.  No expression has more than   *)
(* one group.                                                              *)
(***************************************************************************)
RECURSIVE strip(_)
\* str.strip(): blanks and line breaks
strip(s) ==
    IF s = "" THEN ""
    ELSE IF Harf(s, 1) \in {" ", "\n"} THEN strip(SubSeq(s, 2, Len(s)))
    ELSE IF Harf(s, Len(s)) \in {" ", "\n"} THEN strip(SubSeq(s, 1, Len(s) - 1))
    ELSE s

RECURSIVE Split(_, _)
\* str.split(c) for a one-character c
Split(s, c) ==
    LET N == {i \in 1..Len(s) : Harf(s, i) = c}
    IN  IF N = {} THEN <<s>>
        ELSE <<SubSeq(s, 1, Min(N) - 1)>>
               \o Split(SubSeq(s, Min(N) + 1, Len(s)), c)

Lit(s) == [t |-> "lit", s |-> s]
Kosu(sinif, enaz, grup) == [t |-> "kosu", sinif |-> sinif, enaz |-> enaz, grup |-> grup]

BoslukArti == Kosu("bosluk", 1, FALSE)      \* \s+
BoslukYildiz == Kosu("bosluk", 0, FALSE)    \* \s*
Ayrac == Kosu("ayrac", 0, FALSE)            \* [:\s]*
SoruAyrac == Kosu("soru", 0, FALSE)         \* [?\s]*
Rakam == Kosu("rakam", 1, TRUE)             \* (\d+)
SatirArti == Kosu("satir", 1, TRUE)         \* ([^\n]+), ([^\n\r]+)
SatirYildiz == Kosu("satir", 0, TRUE)       \* ([^\n\r]*)
Hepsi == Kosu("hepsi", 0, TRUE)             \* ([\s\S]*)

\* the character c belongs to the class
SinifUyar(sinif, c) ==
    CASE sinif = "bosluk" -> c \in {" ", "\n"}
      [] sinif = "ayrac" -> c \in {":", " ", "\n"}
      [] sinif = "soru" -> c \in {"?", " ", "\n"}
      [] sinif = "rakam" -> c \in Rakamlar
      [] sinif = "satir" -> c # "\n"
      [] sinif = "hepsi" -> TRUE

RECURSIVE KosuSonu(_, _, _)
\* the last position of the longest run of the class that starts at i
\* (i - 1 when the run is empty); the rest of the line and the rest of the
\* text are found without going character by character
KosuSonu(s, i, sinif) ==
    IF sinif = "hepsi" THEN Len(s)
    ELSE IF sinif = "satir"
    THEN Min({j \in i..(Len(s) + 1) : j = Len(s) + 1 \/ Harf(s, j) = "\n"}) - 1
    ELSE IF i <= Len(s) /\ SinifUyar(sinif, Harf(s, i))
    THEN KosuSonu(s, i + 1, sinif) ELSE i - 1

Eslesmedi == [var |-> FALSE, son |-> 0, grup |-> ""]

\* the result of a run that ends at e, the elements after it matched as r
KosuSonucu(s, i, o, e, r) ==
    [var |-> TRUE, son |-> r.son,
     grup |-> IF o.grup THEN SubSeq(s, i, e) ELSE r.grup]

RECURSIVE Esle(_, _, _, _, _)
\* the run k of kalip taken up to e
KosuGeri(s, kucuk, i, kalip, k, e) ==
    KosuSonucu(s, i, kalip[k], e, Esle(s, kucuk, e + 1, kalip, k + 1))

\* the run k of kalip, whose longest extent ends at g: the longest extent
\* when the rest matches after it (enuzun), else the longest of the shorter
\* extents K after which the rest matches
KosuSec(s, kucuk, i, kalip, k, g, enuzun, K) ==
    IF enuzun.var THEN KosuSonucu(s, i, kalip[k], g, enuzun)
    ELSE IF K = {} THEN Eslesmedi
    ELSE KosuGeri(s, kucuk, i, kalip, k, CHOOSE x \in K : \A y \in K : y <= x)

KosuEsle(s, kucuk, i, kalip, k, g) ==
    IF g < i - 1 + kalip[k].enaz THEN Eslesmedi
    ELSE KosuSec(s, kucuk, i, kalip, k, g,
                 Esle(s, kucuk, g + 1, kalip, k + 1),
                 {e \in (i - 1 + kalip[k].enaz)..(g - 1) :
                     Esle(s, kucuk, e + 1, kalip, k + 1).var})

\* the elements k.. of kalip matched at position i of s (kucuk is s in lower
\* case): whether they match, the last position matched, the group
Esle(s, kucuk, i, kalip, k) ==
    IF k > Len(kalip) THEN [var |-> TRUE, son |-> i - 1, grup |-> ""]
    ELSE IF kalip[k].t = "lit"
    THEN IF i + Len(kalip[k].s) - 1 <= Len(s)
            /\ SubSeq(kucuk, i, i + Len(kalip[k].s) - 1) = kalip[k].s
         THEN Esle(s, kucuk, i + Len(kalip[k].s), kalip, k + 1)
         ELSE Eslesmedi
    ELSE KosuEsle(s, kucuk, i, kalip, k, KosuSonu(s, i, kalip[k].sinif))

BulunamadiRe == [var |-> FALSE, tam |-> "", grup |-> "", gruplu |-> FALSE]

\* re.search of an expression given as its alternatives (a|b|c), each a list
\* of elements: the leftmost position where one matches, the first such
\* alternative there; tam is group(0), grup is group(1), gruplu tells
\* whether the expression has a group.  kucuk is s.lower(), taken once for
\* all the expressions searched in s
\* the alternatives that match at position i
Uyan(secenekler, s, kucuk, i) ==
    {a \in 1..Len(secenekler) : Esle(s, kucuk, i, secenekler[a], 1).var}

\* the match object of kalip matched at i as r
Bulunan(s, i, kalip, r) ==
    [var |-> TRUE, tam |-> SubSeq(s, i, r.son), grup |-> r.grup,
     gruplu |-> \E k \in 1..Len(kalip) : kalip[k].t = "kosu" /\ kalip[k].grup]

AraKalip(s, kucuk, i, kalip) ==
    Bulunan(s, i, kalip, Esle(s, kucuk, i, kalip, 1))

AraYer(secenekler, s, kucuk, i) ==
    AraKalip(s, kucuk, i, secenekler[Min(Uyan(secenekler, s, kucuk, i))])

\* the first of the positions B where an alternative matches
AraIlk(secenekler, s, kucuk, B) ==
    IF B = {} THEN BulunamadiRe ELSE AraYer(secenekler, s, kucuk, Min(B))

Ara(secenekler, s, kucuk) ==
    AraIlk(secenekler, s, kucuk,
           {i \in 1..(Len(s) + 1) : Uyan(secenekler, s, kucuk, i) # {}})

re_search(kalip, s, kucuk) == Ara(<<kalip>>, s, kucuk)

\* any(kelime in s for kelime in kelimeler)
Herhangi(kelimeler, s) == \E k \in 1..Len(kelimeler) : Contains(s, kelimeler[k])

\* baslik_kaliplari (lines 239-249)
baslik_kaliplari ==
    << <<Lit("satinalma"), BoslukArti, Lit("karari"), BoslukYildiz,
         Lit("bolumu"), Ayrac, Hepsi>>,
       <<Lit("satinalma"), BoslukArti, Lit("karari"), Ayrac, Hepsi>>,
       <<Lit("purchasing"), BoslukArti, Lit("decision"), Ayrac, Hepsi>>,
       <<Lit("satin"), BoslukYildiz, Lit("alma"), BoslukArti, Lit("karari"),
         Ayrac, Hepsi>>,
       <<Lit("procurement"), BoslukArti, Lit("decision"), Ayrac, Hepsi>>,
       <<Lit("satinalma"), BoslukArti, Lit("karari"), BoslukYildiz,
         Lit("bolumu"), Ayrac, Hepsi>>,
       <<Lit("satinalma"), BoslukArti, Lit("karari"), Ayrac, Hepsi>>,
       <<Lit("satin"), BoslukYildiz, Lit("alma"), BoslukArti, Lit("karari"),
         Ayrac, Hepsi>> >>

KararBulunamadi == "Satinalma karari metni bulunamadi."

RECURSIVE BaslikAra(_, _, _)
\* one pass of the loop (lines 252-257): bulunan_metin is the stripped group
BaslikDene(metin, kucuk, k, var, bulunan_metin) ==
    IF var /\ bulunan_metin # "" THEN bulunan_metin
    ELSE BaslikAra(metin, kucuk, k + 1)

BaslikEslesmesi(metin, kucuk, k, eslesme) ==
    BaslikDene(metin, kucuk, k, eslesme.var, strip(eslesme.grup))

\* the loop over baslik_kaliplari from pattern k on: the first non-empty
\* stripped group, "" when no pattern gives one
BaslikAra(metin, kucuk, k) ==
    IF k > Len(baslik_kaliplari) THEN ""
    ELSE BaslikEslesmesi(metin, kucuk, k,
                         re_search(baslik_kaliplari[k], metin, kucuk))

\* the lines from the first of the lines I on
Sondakiler(cumleler, I) ==
    IF I = {} THEN <<>> ELSE SubSeq(cumleler, Min(I), Len(cumleler))

KararliSatirlar(cumleler) ==
    Sondakiler(cumleler, {i \in 1..Len(cumleler) :
                             \/ Contains(Lower(cumleler[i]), "karar")
                             \/ Contains(Lower(cumleler[i]), "onay")})

\* the second strategy (lines 260-270): the lines from the first one that
\* holds 'karar' or 'onay' to the end
KararSatirlari(metin) == KararliSatirlar(Split(metin, "\n"))

\* len(metin.strip()) > 50 (line 273)
TumMetinSiniri == 50

\* the three strategies in turn; soyulmus is metin.strip()
KararStratejisi(metin, bulunan_metin, karar_cumleler, soyulmus) ==
    IF bulunan_metin # ""
    THEN [strateji |-> "baslik", metin |-> bulunan_metin]
    ELSE IF karar_cumleler # <<>>
    THEN [strateji |-> "satir", metin |-> strip(Join(karar_cumleler, "\n"))]
    ELSE IF metin # "" /\ Len(soyulmus) > TumMetinSiniri
    THEN [strateji |-> "tum", metin |-> soyulmus]
    ELSE [strateji |-> "yok", metin |-> KararBulunamadi]

\* a variant that returns the whole text, when it is long enough, before
\* it looks for a heading or a keyword line
satinalma_karari_cikart_TumMetinOnce(metin) ==
    KararStratejisi(metin, "", <<>>, strip(metin))

\* which strategy of satinalma_karari_cikart answers, and its answer
satinalma_karari_cikart(metin) ==
    KararStratejisi(metin, BaslikAra(metin, Lower(metin), 1),
                    KararSatirlari(metin), strip(metin))

\* alim_tipi_kaliplari (lines 557-567)
alim_tipi_kaliplari ==
    << <<Lit("alim"), BoslukArti, Lit("tipi"), Ayrac, SatirArti>>,
       <<Lit("alim"), BoslukArti, Lit("tipi"), Ayrac, SatirArti>>,
       <<Lit("purchase"), BoslukArti, Lit("type"), Ayrac, SatirArti>>,
       <<Lit("satinalma"), BoslukArti, Lit("turu"), Ayrac, SatirArti>>,
       <<Lit("contract"), BoslukArti, Lit("type"), Ayrac, SatirArti>>,
       <<Lit("spot"), BoslukArti, Lit("alim")>>,
       <<Lit("surekli"), BoslukArti, Lit("alim")>>,
       <<Lit("continuous"), BoslukArti, Lit("purchase")>>,
       <<Lit("spot"), BoslukArti, Lit("purchase")>> >>

SpotKelimeleri == <<"spot", "tek", "single", "one-time">>
SurekliKelimeleri == <<"surekli", "continuous", "recurring", "long-term", "uzun">>

RECURSIVE TipAra(_, _, _)
\* one pass of the loop (lines 570-582): kucuk_tip is tip.lower()
TipDene(metin, kucuk, k, var, kucuk_tip) ==
    IF var /\ Herhangi(SpotKelimeleri, kucuk_tip) THEN "Spot"
    ELSE IF var /\ Herhangi(SurekliKelimeleri, kucuk_tip) THEN "Surekli"
    ELSE TipAra(metin, kucuk, k + 1)

TipEslesmesi(metin, kucuk, k, eslesme) ==
    TipDene(metin, kucuk, k, eslesme.var,
            Lower(IF eslesme.gruplu THEN strip(eslesme.grup) ELSE eslesme.tam))

\* the loop over alim_tipi_kaliplari from pattern k on (lines 569-582)
TipAra(metin, kucuk, k) ==
    IF k > Len(alim_tipi_kaliplari) THEN ""
    ELSE TipEslesmesi(metin, kucuk, k,
                      re_search(alim_tipi_kaliplari[k], metin, kucuk))

\* the searches in the whole text after the loop (lines 585-590)
TipKelimeleri(metin, kucuk, tip) ==
    IF tip # "" THEN tip
    ELSE IF Ara(<< <<Lit("spot"), BoslukArti, Lit("alim")>>,
                   <<Lit("spot"), BoslukArti, Lit("purchase")>> >>,
                metin, kucuk).var
    THEN "Spot"
    ELSE IF \E w \in {"surekli", "continuous", "recurring"},
               v \in {"alim", "purchase"} :
               re_search(<<Lit(w), BoslukArti, Lit(v)>>, metin, kucuk).var
    THEN "Surekli"
    ELSE "Belirsiz"

TipBul(metin, kucuk) == TipKelimeleri(metin, kucuk, TipAra(metin, kucuk, 1))

\* alim_tipi_bul (lines 555-590)
alim_tipi_bul(metin) == TipBul(metin, Lower(metin))

\* sure_kaliplari (lines 595-607)
sure_kaliplari ==
    << <<Lit("sozlesme"), BoslukArti, Lit("suresi"), BoslukYildiz, Lit("(ay)"),
         BoslukYildiz, Rakam>>,
       <<Lit("sozlesme"), BoslukArti, Lit("suresi"), Ayrac, Rakam,
         BoslukYildiz, Lit("ay")>>,
       <<Lit("sozlesme"), BoslukArti, Lit("suresi"), Ayrac, Rakam,
         BoslukYildiz, Lit("ay")>>,
       <<Lit("contract"), BoslukArti, Lit("duration"), Ayrac, Rakam,
         BoslukYildiz, Lit("month")>>,
       <<Lit("contract"), BoslukArti, Lit("period"), Ayrac, Rakam,
         BoslukYildiz, Lit("month")>>,
       <<Lit("sure"), Ayrac, Rakam, BoslukYildiz, Lit("ay")>>,
       <<Lit("duration"), Ayrac, Rakam, BoslukYildiz, Lit("month")>>,
       <<Rakam, BoslukYildiz, Lit("aylik"), BoslukArti, Lit("sozlesme")>>,
       <<Rakam, BoslukYildiz, Lit("month"), BoslukArti, Lit("contract")>>,
       <<Rakam, BoslukYildiz, Lit("ay"), BoslukArti, Lit("sureyle")>>,
       <<Lit("for"), BoslukArti, Rakam, BoslukArti, Lit("months")>> >>

\* yil_kaliplari (lines 621-626)
yil_kaliplari ==
    << <<Lit("sozlesme"), BoslukArti, Lit("suresi"), Ayrac, Rakam,
         BoslukYildiz, Lit("yil")>>,
       <<Rakam, BoslukYildiz, Lit("yillik"), BoslukArti, Lit("sozlesme")>>,
       <<Rakam, BoslukYildiz, Lit("year"), BoslukArti, Lit("contract")>>,
       <<Lit("contract"), BoslukArti, Lit("for"), BoslukArti, Rakam,
         BoslukYildiz, Lit("year")>> >>

EnFazlaAy == 120        \* 1 <= ay_degeri <= 120
EnFazlaYil == 10        \* 1 <= yil <= 10
YildakiAy == 12         \* yil * 12

RECURSIVE SureAra(_, _, _, _, _)
\* one pass of a loop (lines 610-617, 629-637): n is int(eslesme.group(1))
SureDene(metin, kucuk, kaliplar, enfazla, k, var, n) ==
    IF var /\ 1 <= n /\ n <= enfazla THEN n
    ELSE SureAra(metin, kucuk, kaliplar, enfazla, k + 1)

SureEslesmesi(metin, kucuk, kaliplar, enfazla, k, eslesme) ==
    SureDene(metin, kucuk, kaliplar, enfazla, k, eslesme.var,
             TamSayi(eslesme.grup))

\* a loop over duration patterns from pattern k on: the first captured
\* number from 1 to enfazla, 0 when there is none
SureAra(metin, kucuk, kaliplar, enfazla, k) ==
    IF k > Len(kaliplar) THEN 0
    ELSE SureEslesmesi(metin, kucuk, kaliplar, enfazla, k,
                       re_search(kaliplar[k], metin, kucuk))

\* months found come first, then years in months (lines 609-639)
AyVeyaYil(ay_degeri, yil) ==
    IF ay_degeri # 0 THEN ay_degeri
    ELSE IF yil # 0 THEN yil * YildakiAy
    ELSE 0

SureBul(metin, kucuk) ==
    AyVeyaYil(SureAra(metin, kucuk, sure_kaliplari, EnFazlaAy, 1),
              SureAra(metin, kucuk, yil_kaliplari, EnFazlaYil, 1))

\* sozlesme_suresi_bul (lines 592-639)
sozlesme_suresi_bul(metin) == SureBul(metin, Lower(metin))

BuyukHarfler ==
    {"A", "B", "C", "D", "E", "F", "G", "H", "I", "J", "K", "L", "M", "N",
     "O", "P", "Q", "R", "S", "T", "U", "V", "W", "X", "Y", "Z"}
KucukHarfler ==
    {"a", "b", "c", "d", "e", "f", "g", "h", "i", "j", "k", "l", "m", "n",
     "o", "p", "q", "r", "s", "t", "u", "v", "w", "x", "y", "z"}

\* the words of the texts tried whose spelling holds a letter outside
\* [A-Za-z] (Danismanlik and Ihalesi are written with dotless i, s-cedilla
\* and dotted capital I): [A-Z] and [a-z] do not match such a letter
TurkceHarfliKelimeler ==
    {"Danismanlik", "Ihalesi", "Surekli", "Hayir", "Gerekcesi", "Yonetim"}

\* the word matches [A-Z][a-z]* as a whole
BuyukHarfliKelime(w) ==
    /\ w # "" /\ w \notin TurkceHarfliKelimeler
    /\ Harf(w, 1) \in BuyukHarfler
    /\ \A i \in 2..Len(w) : Harf(w, i) \in KucukHarfler

\* gerekce without its last word, the one after the blank at b
SonBosluktanAt(gerekce_, b) ==
    IF BuyukHarfliKelime(SubSeq(gerekce_, b + 1, Len(gerekce_)))
    THEN strip(SubSeq(gerekce_, 1, b - 1))
    ELSE gerekce_

BosluklardanAt(gerekce_, B) ==
    IF B = {} THEN gerekce_
    ELSE SonBosluktanAt(gerekce_, CHOOSE x \in B : \A y \in B : y <= x)

\* re.sub(r'\s+[A-Z][a-z]*\s*$', '', gerekce).strip() on a stripped one-line
\* gerekce (line 654): a last word that is a capital followed by small
\* letters goes, with the blanks in front of it
SonKelimeyiAt(gerekce_) ==
    BosluklardanAt(gerekce_, {i \in 1..Len(gerekce_) : Harf(gerekce_, i) = " "})

\* patterns of yonetim_onay_gerekcesi_bul (lines 643-647)
gerekce_patterns ==
    << <<Lit("yonetim onay gerekcesi"), BoslukArti, SatirArti>>,
       <<Lit("yonetim onay gerekcesi"), Ayrac, SatirArti>>,
       <<Lit("yonetim onay gerekcesi"), Ayrac, SatirArti>> >>

RECURSIVE GerekceAra(_, _, _)
\* one pass of the loop (lines 650-656): g is the cleaned group
GerekceDene(metin, kucuk, k, var, g) ==
    IF var /\ g # "" THEN g ELSE GerekceAra(metin, kucuk, k + 1)

GerekceEslesmesi(metin, kucuk, k, match) ==
    GerekceDene(metin, kucuk, k, match.var, SonKelimeyiAt(strip(match.grup)))

\* the loop over the patterns from pattern k on (lines 649-656)
GerekceAra(metin, kucuk, k) ==
    IF k > Len(gerekce_patterns) THEN ""
    ELSE GerekceEslesmesi(metin, kucuk, k,
                          re_search(gerekce_patterns[k], metin, kucuk))

\* yonetim_onay_gerekcesi_bul (lines 641-658)
yonetim_onay_gerekcesi_bul(metin) == GerekceAra(metin, Lower(metin), 1)

\* patterns of matbu_sozlesme_bul (lines 663-672), each as its alternatives.
\* The sixth pattern of the source needs one of the check-box characters
\* U+2610, U+2611, U+2713 in the text; the texts here are written without
\* them and the pattern is left out, as are these characters and U+2717 in
\* the two word lists.
matbu_patterns ==
    << << <<Lit("matbu"), BoslukArti, Lit("sozlesme"), BoslukArti,
            Lit("yapilacak"), BoslukArti, Lit("mi"), SoruAyrac, SatirYildiz>> >>,
       << <<Lit("matbu"), BoslukArti, Lit("sozlesme"), Ayrac, SatirYildiz>> >>,
       << <<Lit("sozlesme"), BoslukArti, Lit("turu"), Ayrac, SatirYildiz>> >>,
       << <<Lit("sozlesme"), BoslukArti, Lit("sekli"), Ayrac, SatirYildiz>> >>,
       << <<Lit("matbu"), Ayrac, SatirYildiz>> >>,
       << <<Lit("["), BoslukYildiz, Lit("]"), BoslukYildiz, Lit("matbu")>>,
          <<Lit("[x]"), BoslukYildiz, Lit("matbu")>>,
          <<Lit("[x]"), BoslukYildiz, Lit("matbu")>> >> >>

olumsuz_ifadeler ==
    <<"hayir", "hayir", "no", "yok", "olmayacak", "yapilmayacak",
      "yapilmayacak", "x", "[ ]", "bos", "isaretlenmemis">>
olumlu_ifadeler ==
    <<"evet", "yes", "var", "olacak", "yapilacak", "yapilacak", "[x]", "[X]",
      "isaretli">>

RECURSIVE MatbuAra(_, _, _)
\* one pass of the loop (lines 675-700) on the matched text in lower case
MatbuDene(metin, kucuk, k, var, eslesme_metni) ==
    IF var /\ Herhangi(olumsuz_ifadeler, eslesme_metni) THEN FALSE
    ELSE IF var /\ Herhangi(olumlu_ifadeler, eslesme_metni) THEN TRUE
    ELSE MatbuAra(metin, kucuk, k + 1)

MatbuEslesmesi(metin, kucuk, k, match) ==
    MatbuDene(metin, kucuk, k, match.var,
              Lower(match.tam)
                \o (IF match.grup # "" THEN " " \o Lower(match.grup) ELSE ""))

\* the loop over the patterns from pattern k on (lines 674-700); the
\* default when no pattern decides (line 704)
MatbuAra(metin, kucuk, k) ==
    IF k > Len(matbu_patterns) THEN TRUE
    ELSE MatbuEslesmesi(metin, kucuk, k, Ara(matbu_patterns[k], metin, kucuk))

\* matbu_sozlesme_bul (lines 660-704)
matbu_sozlesme_bul(metin) == MatbuAra(metin, Lower(metin), 1)

RECURSIVE TekBosluk(_)
\* re.sub(r'\s+', ' ', metin), the text taken half by half
TekBosluk(s) ==
    IF Len(s) <= 1 THEN (IF s \in {" ", "\n"} THEN " " ELSE s)
    ELSE LET orta == Len(s) \div 2
             a == TekBosluk(SubSeq(s, 1, orta))
             b == TekBosluk(SubSeq(s, orta + 1, Len(s)))
         IN  IF Harf(a, Len(a)) = " " /\ Harf(b, 1) = " "
             THEN a \o SubSeq(b, 2, Len(b)) ELSE a \o b

\* metin_temizle (lines 776-788)
metin_temizle(metin) == strip(TekBosluk(metin))

RECURSIVE ReSplit(_)
\* re.split(r'[.!?]+', metin), the empty pieces between two marks left out
ReSplit(s) ==
    LET N == {i \in 1..Len(s) : Harf(s, i) \in {".", "!", "?"}}
    IN  IF N = {} THEN <<s>>
        ELSE <<SubSeq(s, 1, Min(N) - 1)>> \o ReSplit(SubSeq(s, Min(N) + 1, Len(s)))

\* cumle_segmentasyonu on the string (lines 790-795)
cumle_segmentasyonu_yazi(metin) ==
    LET parcalar == ReSplit(metin)
        soyulmus == [k \in 1..Len(parcalar) |-> strip(parcalar[k])]
    IN  SelectSeq(soyulmus, LAMBDA c : c # "" /\ Len(c) > EnAzCumle)

MaddeSiniri == 20       \* len(cumle) > 20
EnFazlaMadde == 10      \* temiz_cumleler[:10]

DetayBulunamadi == "Satinalma karari detaylari bulunamadi."

\* cumle.startswith(on)
StartsWith(s, on) == Len(s) >= Len(on) /\ SubSeq(s, 1, Len(on)) = on

\* one bullet line; the bullet character U+2022 is written "*"
Madde(cumle) ==
    "* " \o (IF Harf(cumle, Len(cumle)) = "." THEN cumle ELSE cumle \o ".")

\* _alim_karari_madde_madde_cikart (lines 1240-1263)
alim_karari_madde_madde_cikart(metin) ==
    LET cumleler == cumle_segmentasyonu_yazi(metin)
        temiz_cumleler ==
            SelectSeq([k \in 1..Len(cumleler) |-> strip(cumleler[k])],
                      LAMBDA c : Len(c) > MaddeSiniri /\ ~StartsWith(c, "EK-"))
        ilkler == IlkN(temiz_cumleler, EnFazlaMadde)
    IN  IF temiz_cumleler # <<>>
        THEN Join([k \in 1..Len(ilkler) |-> Madde(ilkler[k])], "\n")
        ELSE DetayBulunamadi

\* the summary of the text cikan, or of the whole text (lines 1124-1135)
KararOzeti(karar_metni, cikan) ==
    [alim_karari |->
        alim_karari_madde_madde_cikart(
            metin_temizle(IF cikan = KararBulunamadi THEN karar_metni ELSE cikan))]

\* satinalma_karari_ozetle (lines 1117-1137)
satinalma_karari_ozetle(karar_metni) ==
    KararOzeti(karar_metni, satinalma_karari_cikart(karar_metni).metin)

(***************************************************************************)
(* The detailed analysis of analiz_et: satinalma_karari_bul, risk_tespiti, *)
(* satinalma_karari_analiz_et                                              *)
(***************************************************************************)
\* str.find(alt) + 1: the first position of alt in s, 0 when it is not there
Find(s, alt) ==
    LET I == {i \in 1..(Len(s) - Len(alt) + 1) : SubSeq(s, i, i + Len(alt) - 1) = alt}
    IN  IF I = {} THEN 0 ELSE Min(I)

bitis_desenleri == <<"IMZALAR", "ONAYLAR">>

\* karar_metni cut at the first of bitis_desenleri it holds (lines 1042-1047)
BitiseKadar(karar_metni) ==
    LET D == {d \in 1..Len(bitis_desenleri) : Find(karar_metni, bitis_desenleri[d]) # 0}
    IN  IF D = {} THEN karar_metni
        ELSE SubSeq(karar_metni, 1, Find(karar_metni, bitis_desenleri[Min(D)]) - 1)

\* satinalma_karari_bul (lines 1030-1082)
satinalma_karari_bul(pdf_metin) ==
    LET Sonrasi(baslik) == SubSeq(pdf_metin, Find(pdf_metin, baslik), Len(pdf_metin))
    IN  IF Find(pdf_metin, "SATINALMA KARARI") # 0
        THEN strip(BitiseKadar(Sonrasi("SATINALMA KARARI")))
        ELSE IF Find(pdf_metin, "ACIKLAMALAR") # 0
        THEN LET karar_metni == Sonrasi("ACIKLAMALAR")
                 son_alim_index == Find(karar_metni, "SON ALIM BILGILERI")
             IN  strip(IF son_alim_index # 0
                       THEN SubSeq(karar_metni, 1, son_alim_index - 1)
                       ELSE karar_metni)
        ELSE IF Find(pdf_metin, "TEKLIF BILGILERI") # 0
        THEN strip(Sonrasi("TEKLIF BILGILERI"))
        ELSE IF Find(pdf_metin, "Ihale kapsaminda") # 0
        THEN strip(Sonrasi("Ihale kapsaminda"))
        ELSE pdf_metin

\* risk_kategorileri and olumsuzluk_kelimeleri of risk_tespiti (lines 918-926)
risk_kategorileri ==
    << [kategori |-> "Ticari Riskler",
        kelimeler |-> <<"ambargo", "kartel", "fiyat manipulasyonu", "tekel", "yaptirim">>],
       [kategori |-> "Etik Riskler",
        kelimeler |-> <<"rusvet", "cikar catismasi", "kayirma", "menfaat">>],
       [kategori |-> "Yasal Riskler",
        kelimeler |-> <<"yasadisi", "ihlal", "dolandiricilik", "kanuna aykiri">>] >>

olumsuzluk_kelimeleri ==
    <<"yoktur", "bulunmamaktadir", "mevcut degil", "tespit edilmemis",
      "gorulmemis", "rastlanmamis", "degildir", "olmayan">>

RECURSIVE Duzlestir(_)
\* the lists of a list, one after the other
Duzlestir(q) == IF q = <<>> THEN <<>> ELSE Head(q) \o Duzlestir(Tail(q))

\* risk_tespiti (lines 913-954): per category, per phrase, per sentence
risk_tespiti(metin) ==
    LET cumleler == cumle_segmentasyonu_yazi(metin)
        Kayit(kat, kelime, cumle) ==
            IF Contains(Lower(cumle), Lower(kelime))
               /\ ~Herhangi(olumsuzluk_kelimeleri, Lower(cumle))
            THEN <<[kategori |-> kat, kelime |-> kelime, cumle |-> strip(cumle)]>>
            ELSE <<>>
        Kelime_(kat, kelime) ==
            Duzlestir([c \in 1..Len(cumleler) |-> Kayit(kat, kelime, cumleler[c])])
        Kategori_(r) ==
            Duzlestir([k \in 1..Len(r.kelimeler) |-> Kelime_(r.kategori, r.kelimeler[k])])
    IN  Duzlestir([r \in 1..Len(risk_kategorileri) |-> Kategori_(risk_kategorileri[r])])

\* the sentences of a cleaned text, each the list of its words
Cumleleri(temiz_metin) ==
    LET parcalar == ReSplit(temiz_metin)
        dolu == SelectSeq([k \in 1..Len(parcalar) |-> strip(parcalar[k])],
                          LAMBDA c : c # "")
    IN  [k \in 1..Len(dolu) |-> Split(dolu[k], " ")]

\* extractive_ozet_olustur on the string (lines 860-896): the length test on
\* the string, the selectors on the sentences of the cleaned text
ozet_olustur(metin, sira, tr_sira) ==
    IF metin = "" \/ Len(strip(metin)) < EnAzMetin
    THEN [yeterli |-> FALSE, mesaj |-> YetersizMetin]
    ELSE LET c == Cumleleri(metin_temizle(metin))
             tum_cumleler == tfidf_ozet(c, OzetCumleSayisi, sira)
                               \o textrank_ozet(c, OzetCumleSayisi, tr_sira, sira)
                               \o pozisyon_bazli_ozet(c)
         IN  [yeterli |-> TRUE,
              final_cumleler |-> IlkN(benzersiz_cumleler(tum_cumleler), EnFazlaCumle)]

\* the rankings sumy's TextRank can give, "hata" when it raises
TextRankSiralari == {"hata", "belge", "ters"}

\* the dictionaries of lines 1108-1113, one for each ranking the two
\* scorers can give
KararAnalizleri(karar_metni, temiz_metin, bulunan_riskler, onay_sonucu) ==
    {[satinalma_karari_metni |-> karar_metni,
      satinalma_karari_ozeti |-> ozet_olustur(temiz_metin, sira, tr_sira),
      risk_tespitleri |-> bulunan_riskler,
      onay_kurgusu_sonucu |-> [toplam_deger |-> onay_sonucu.toplam_deger,
                               para_birimi |-> onay_sonucu.para_birimi,
                               onay_mercii |-> onay_sonucu.onay_mercii]] :
        sira \in Siralamalar, tr_sira \in TextRankSiralari}

TemizKararAnalizleri(karar_metni, temiz_metin, belirtecler) ==
    KararAnalizleri(karar_metni, temiz_metin, risk_tespiti(temiz_metin),
                    onay_kurgusu_kontrol(belirtecler))

KararMetniAnalizleri(karar_metni, belirtecler) ==
    IF karar_metni = ""
    THEN {[satinalma_karari_metni |-> "Satinalma Karari bolumu tespit edilemedi",
           satinalma_karari_ozeti |-> "Ozet olusturulamadi",
           risk_tespitleri |-> <<>>,
           onay_kurgusu_sonucu |-> "Onay kurgusu belirlenemedi"]}
    ELSE TemizKararAnalizleri(karar_metni, metin_temizle(karar_metni),
                              belirtecler)

\* satinalma_karari_analiz_et (lines 1084-1115): the results it can return,
\* one for each ranking the two scorers can give; belirtecler is the text
\* as the tokens onay_kurgusu_kontrol reads
satinalma_karari_analiz_et(pdf_metin, belirtecler) ==
    KararMetniAnalizleri(satinalma_karari_bul(pdf_metin), belirtecler)

(***************************************************************************)
(* The pipeline: pdf_analiz_et and analiz_et on an extracted text          *)
(*                                                                         *)
(* A document is the list of its lines, a line the list of its tokens; the *)
(* string the extractors read is the lines joined by "\n", the tokens of a *)
(* line joined by one blank.                                               *)
(***************************************************************************)

SatirYazisi(satir) == Join([k \in 1..Len(satir) |-> satir[k].s], " ")

BelgeYazisi(b) == Join([k \in 1..Len(b) |-> SatirYazisi(b[k])], "\n")

RECURSIVE BelgeBelirtecleri(_)
BelgeBelirtecleri(b) ==
    IF b = <<>> THEN <<>>
    ELSE IF Len(b) = 1 THEN b[1]
    ELSE b[1] \o <<SatirSonu>> \o BelgeBelirtecleri(Tail(b))

KararTespitEdilemedi == "Satinalma Karari bolumu tespit edilemedi."

\* the call of onay_kurgusu_hesapla (lines 1367-1373)
OnayKurgusu(metin, bulunan, tip, suresi) ==
    onay_kurgusu_hesapla(bulunan.deger, tip, suresi, bulunan.para_birimi,
                         yonetim_onay_gerekcesi_bul(metin),
                         matbu_sozlesme_bul(metin))

\* the AnalizSonucu built at lines 1379-1389
Sonuc(metin, satinalma_karari, bulunan, tip, suresi, kurgu) ==
    [satinalma_karari |-> IF satinalma_karari = ""
                          THEN KararTespitEdilemedi ELSE satinalma_karari,
     risk_tespitleri |-> risk_analizi_yap(Split(metin, "\n")),
     onay_mercii |-> kurgu.onay_mercii,
     toplam_alim_degeri |-> bulunan.deger,
     para_birimi |-> bulunan.para_birimi,
     alim_tipi |-> tip,
     sozlesme_suresi |-> suresi,
     onay_kurgusu |-> kurgu,
     ozet |-> satinalma_karari_ozetle(metin)]

Hesaplanan(metin, bulunan, tip, suresi) ==
    Sonuc(metin, satinalma_karari_cikart(metin).metin, bulunan, tip, suresi,
          OnayKurgusu(metin, bulunan, tip, suresi))

MetinSonucu(metin, belirtecler) ==
    Hesaplanan(metin, toplam_alim_degeri_bul(belirtecler),
               alim_tipi_bul(metin), sozlesme_suresi_bul(metin))

\* pdf_analiz_et from the extracted text on (lines 1349-1389)
MetinAnalizi(b) == MetinSonucu(BelgeYazisi(b), BelgeBelirtecleri(b))

\* the dictionary analiz_et returns when no text was extracted
\* (lines 1272-1288); {} is the empty tuple
MetinCikarilamadi ==
    [hata |-> "PDF'den metin cikarilamadi",
     toplam_deger |-> Rat(0),
     onay_mercii |-> "Belirsiz",
     risk_sayisi |-> 0,
     riskler |-> <<>>,
     ozet |-> <<>>,
     alim_tipi |-> "Belirsiz",
     sozlesme_suresi |-> 0,
     onay_kurgusu |-> <<>>,
     detayli_analiz |->
         [satinalma_karari_metni |-> "Metin cikarilamadi",
          satinalma_karari_ozeti |-> "Ozet olusturulamadi",
          risk_tespitleri |-> <<>>,
          onay_kurgusu_sonucu |-> "Onay kurgusu belirlenemedi"]]

\* the dictionaries of lines 1306-1320, one for each detailed analysis
Sozlukler(bulunan, tip, suresi, kurgu, bulgular, alim_ozeti, detaylar) ==
    {[toplam_deger |-> bulunan.deger,
      para_birimi |-> bulunan.para_birimi,
      onay_mercii |-> kurgu.onay_mercii,
      risk_sayisi |-> Len(bulgular),
      riskler |-> bulgular,
      ozet |-> alim_ozeti,
      alim_tipi |-> tip,
      sozlesme_suresi |-> suresi,
      onay_kurgusu |-> kurgu,
      detayli_analiz |-> detayli_analiz] : detayli_analiz \in detaylar}

HesaplananSozlukler(metin, belirtecler, bulunan, tip, suresi) ==
    Sozlukler(bulunan, tip, suresi, OnayKurgusu(metin, bulunan, tip, suresi),
              risk_analizi_yap(Split(metin, "\n")),
              satinalma_karari_ozetle(metin),
              satinalma_karari_analiz_et(metin, belirtecler))

MetinSozlukleri(metin, belirtecler) ==
    IF metin = "" THEN {MetinCikarilamadi}
    ELSE HesaplananSozlukler(metin, belirtecler,
                             toplam_alim_degeri_bul(belirtecler),
                             alim_tipi_bul(metin), sozlesme_suresi_bul(metin))

\* analiz_et from the extracted text on (lines 1271-1320): the results it
\* can return
analiz_et(b) == MetinSozlukleri(BelgeYazisi(b), BelgeBelirtecleri(b))

\* an analysis that takes the first phrase off the commercial list
AsistanSonrasi_IfadeTuketen ==
    [asistan EXCEPT !.ticari_riskler = Tail(@)]

\* the analyzer's fields after an analysis: no statement of the analysis
\* methods assigns to self or changes one of its lists
AsistanSonrasi == asistan

(***************************************************************************)
(* Documents tried: up to MaxBelgeSatir lines that follow each other in    *)
(* BelgeSatirlari; analyses of the document and of DigerBelge on one       *)
(* analyzer, up to MaxAnaliz of them                                       *)
(***************************************************************************)
MaxBelgeSatir == 3
MaxAnaliz == 3

BelgeSatirlari ==
    << <<Kelime("SATINALMA"), Kelime("KARARI")>>,
       <<Kelime("hafif"), Kelime("gecikme"), Kelime("ve"), Kelime("ambargo"),
         Kelime("riski"), Kelime("mevcut.")>>,
       <<Kelime("ambargo"), Kelime("riski"), Kelime("yoktur.")>>,
       <<Kelime("Tedarikci"), Kelime("teklifi"), Kelime("uygun"),
         Kelime("bulundu.")>>,
       <<Etiket(AlimDegeriEtiketi), Sayi("94.629,56"), Kelime("USD")>>,
       <<Kelime("Alim"), Kelime("Tipi"), Kelime("Surekli")>>,
       <<Kelime("Sozlesme"), Kelime("Suresi"), Kelime("(Ay)"), Sayi("3")>>,
       <<Kelime("Yonetim"), Kelime("Onay"), Kelime("Gerekcesi"),
         Kelime("Finansal"), Kelime("Limit")>>,
       <<Kelime("Matbu"), Kelime("Sozlesme"), Kelime("Hayir")>>,
       <<Kelime("Yonetim"), Kelime("Onay"), Kelime("Gerekcesi"),
         Kelime("Danismanlik"), Kelime("Ihalesi")>> >>

\* the n lines of BelgeSatirlari from line i on
Pencere(i, n) == SubSeq(BelgeSatirlari, i, i + n - 1)

Belgeler ==
    {Pencere(p[1], p[2]) :
        p \in {q \in (1..Len(BelgeSatirlari)) \X (0..MaxBelgeSatir) :
                  q[1] + q[2] - 1 <= Len(BelgeSatirlari)}}

DigerBelge == Pencere(2, 1)

InitAnaliz ==
    /\ JobBosta
    /\ OnayBosta
    /\ belge_metni = <<>>
    /\ alim_degeri = YokKayit
    /\ kontrol = YokKayit
    /\ satirlar = <<"">>
    /\ riskler = YokKayit
    /\ ozet_metni = <<>>
    /\ ozet = YokKayit
    /\ asistan = SatinalmaAnalizAsistani
    /\ belge \in Belgeler
    /\ analizler = <<>>
    /\ sozluk = YokKayit

\* a call of pdf_analiz_et on a file whose extracted text is the document,
\* or is the other document
PdfAnalizEt ==
    /\ Len(analizler) < MaxAnaliz
    /\ \E b \in {belge, DigerBelge} :
          analizler' = Append(analizler, [belge |-> b, sonuc |-> MetinAnalizi(b)])
    /\ asistan' = AsistanSonrasi
    /\ UNCHANGED <<belge, sozluk>>
    /\ UNCHANGED <<jobVars, onayVars, degerVars, riskVars, ozetVars>>

\* a call of analiz_et on a file whose extracted text is the document
AnalizEt ==
    /\ sozluk = YokKayit
    /\ sozluk' \in analiz_et(belge)
    /\ asistan' = AsistanSonrasi
    /\ UNCHANGED <<belge, analizler>>
    /\ UNCHANGED <<jobVars, onayVars, degerVars, riskVars, ozetVars>>

NextAnaliz == PdfAnalizEt \/ AnalizEt

SpecAnaliz == InitAnaliz /\ [][NextAnaliz]_vars

(***************************************************************************)
(* Properties of the pipeline                                              *)
(***************************************************************************)
\* a full result of pdf_analiz_et for a text that holds nothing
BosMetinSonucu(r) ==
    /\ r.satinalma_karari = KararBulunamadi
    /\ r.toplam_alim_degeri = Rat(0)
    /\ r.para_birimi = "USD"
    /\ r.sozlesme_suresi = 0
    /\ r.alim_tipi = "Belirsiz"
    /\ r.risk_tespitleri = <<>>
    /\ "onay_mercii" \in DOMAIN r.onay_kurgusu

\* a full result of analiz_et for a text that holds nothing
BosMetinSozlugu(d) ==
    /\ "hata" \notin DOMAIN d
    /\ d.detayli_analiz.satinalma_karari_metni = KararBulunamadi
    /\ d.toplam_deger = Rat(0)
    /\ "para_birimi" \in DOMAIN d
    /\ d.para_birimi = "USD"
    /\ d.sozlesme_suresi = 0
    /\ d.alim_tipi = "Belirsiz"
    /\ d.risk_sayisi = 0
    /\ d.riskler = <<>>
    /\ "onay_mercii" \in DOMAIN d.onay_kurgusu

\* C18: for an empty extracted text both pdf_analiz_et and analiz_et return
\* a full result: the decision text is the "not found" sentinel, the value
\* is zero in the default currency, the duration is 0, the purchase type is
\* unspecified, there are no findings and an approval decision is present.
C18_EmptyTextGivesFullResult ==
    /\ \A i \in 1..Len(analizler) :
          analizler[i].belge = <<>> => BosMetinSonucu(analizler[i].sonuc)
    /\ (belge = <<>> /\ sozluk # YokKayit) => BosMetinSozlugu(sozluk)

KararBasligi == "satinalma karari"

\* the trimmed text after the heading at position p of m, "" when p is 0
BasliktanSonra(m, p) ==
    IF p = 0 THEN "" ELSE strip(SubSeq(m, p + Len(KararBasligi), Len(m)))

\* the lines of L from the first one that holds 'karar' or 'onay' in any
\* letter case, joined again and trimmed; "" when no line holds one
AnahtarSatirindanSonra(L) ==
    IF \A i \in 1..Len(L) : ~Contains(Lower(L[i]), "karar")
                               /\ ~Contains(Lower(L[i]), "onay")
    THEN ""
    ELSE strip(Join(SubSeq(L, CHOOSE i \in 1..Len(L) :
                                  /\ \/ Contains(Lower(L[i]), "karar")
                                     \/ Contains(Lower(L[i]), "onay")
                                  /\ \A j \in 1..(i - 1) :
                                        /\ ~Contains(Lower(L[j]), "karar")
                                        /\ ~Contains(Lower(L[j]), "onay"),
                            Len(L)), "\n"))

\* the first of the four answers that is a text
IlkSonuc(a, b, c) ==
    IF a # "" THEN a
    ELSE IF b # "" THEN b
    ELSE IF Len(c) > 50 THEN c
    ELSE KararBulunamadi

\* what the four strategies, taken in their order, give for the text m
SiraliKarar(m) ==
    IlkSonuc(BasliktanSonra(m, Find(Lower(m), KararBasligi)),
             AnahtarSatirindanSonra(Split(m, "\n")), strip(m))

\* C21: the decision text of an analysed document is the answer of the
\* first strategy that yields text, in the order: the text after the
\* heading up to the end; the first line holding 'karar' or 'onay' with
\* all following lines; the trimmed whole text when it has more than 50
\* characters; the "not found" sentinel.
C21_StrategiesInOrder ==
    \A i \in 1..Len(analizler) :
        analizler[i].sonuc.satinalma_karari
            = SiraliKarar(BelgeYazisi(analizler[i].belge))

\* analysed: a document without heading whose second line is the first to
\* hold a keyword, answered from that line on, and a short document
\* without heading and keyword, answered by the sentinel
C21_Witness ==
    /\ \E i \in 1..Len(analizler) :
          /\ analizler[i].belge = Pencere(7, 3)
          /\ analizler[i].sonuc.satinalma_karari
                = BelgeYazisi(Pencere(8, 2))
    /\ \E i \in 1..Len(analizler) :
          /\ analizler[i].belge = DigerBelge
          /\ analizler[i].sonuc.satinalma_karari = KararBulunamadi

\* the justification field of a document reads 'Finansal Limit'
FinansalLimitSatiri == "Yonetim Onay Gerekcesi Finansal Limit"

\* neither override of onay_kurgusu_hesapla gave the authority of r for
\* the text m
KuralsizSonuc(m, r) ==
    /\ ~Contains(m, DanismanlikIsareti)
    /\ r.onay_mercii # "Minimum Direktor"

\* C30: the financial-limit rule is reachable from document text: when the
\* justification field of the document reads 'Finansal Limit' at the end
\* of its line and no override fires, the authority pdf_analiz_et returns
\* carries the '(minimum)' qualifier.
C30_FinancialLimitFromText ==
    \A i \in 1..Len(analizler) :
        (/\ Contains(BelgeYazisi(analizler[i].belge), FinansalLimitSatiri)
         /\ KuralsizSonuc(BelgeYazisi(analizler[i].belge), analizler[i].sonuc))
        => Contains(analizler[i].sonuc.onay_mercii, " (minimum)")

(***************************************************************************)
(* The tier table against the threshold chain, and annualization           *)
(***************************************************************************)
\* C28: the two tier lookups agree: for every value v >= 0 the authority
\* the table lookup onay_mercii_belirle returns for v is the authority the
\* threshold chain of onay_kurgusu_kontrol chooses for v.
C28_TableAgreesWithChain ==
    mercii # Yok => mercii = KontrolMercii(toplam_deger)

\* the name is that of row j of the tier table, with or without the
\* '(minimum)' qualifier
SatirinAdi(ad, j) ==
    \/ ad = onay_limitleri[j].mercii
    \/ ad = onay_limitleri[j].mercii \o " (minimum)"

\* C29: annualization never lowers the approval level: when the authority
\* comes from the tier table, the value looked up is at least the input
\* value, and the authority is that of the input value's row or of a
\* later row of the table.
C29_AnnualizationNeverLowers ==
    (Hesaplandi /\ KuralYok)
        => /\ RatLeq(toplam_deger, onay_kurgusu.kullanilan_deger)
           /\ \A i \in UyanSatirlar(toplam_deger) :
                 \E j \in i..Len(onay_limitleri) :
                     SatirinAdi(onay_kurgusu.onay_mercii, j)

====
